---- MODULE Spec2Model ----
(***************************************************************************)
(* Voice2Web: the intent resolution pipeline of the backend intent service *)
(* (processIntent -> callGrok -> fallbackIntentRecognition ->              *)
(* extractEntities).                                                       *)
(*                                                                         *)
(* The repository holds the intent service twice: as services/intent       *)
(* (src/unnamed/part_002) and as a second copy inside backend/src/app.js.  *)
(* The copies differ in the schema's intent enumeration and in the way     *)
(* processIntent reads the classifier's result; the variable `build` says  *)
(* which copy is running.                                                  *)
(*                                                                         *)
(* JavaScript values are tagged records; texts are TLA+ strings, read one  *)
(* character at a time with SubSeq; confidences are in hundredths.         *)
(***************************************************************************)
EXTENDS Integers, Sequences, FiniteSets, TLC

\* ------------------------------------------------------------------------
\* JavaScript values
\* ------------------------------------------------------------------------
Undef == [t |-> "undefined"]
Null == [t |-> "null"]
Str(s) == [t |-> "string", s |-> s]
Num(n) == [t |-> "number", n |-> n]
Bool(b) == [t |-> "boolean", b |-> b]
Arr(a) == [t |-> "array", a |-> a]
Obj(f) == [t |-> "object", f |-> f]

\* the empty object {}
EmptyFields == [k \in {} |-> Undef]

EmptyObj == Obj(EmptyFields)

\* ToBoolean, as used by !x and x || y
Truthy(v) ==
    CASE v.t = "undefined" -> FALSE
      [] v.t = "null" -> FALSE
      [] v.t = "string" -> v.s # ""
      [] v.t = "number" -> v.n # 0
      [] v.t = "boolean" -> v.b
      [] OTHER -> TRUE

\* v?.k : undefined on null and undefined, the property otherwise
OptProp(v, k) ==
    IF v.t = "object" /\ k \in DOMAIN v.f THEN v.f[k] ELSE Undef

\* v.k throws a TypeError on null and undefined
PropThrows(v) == v.t \in {"null", "undefined"}

\* a || b
OrElse(a, b) == IF Truthy(a) THEN a ELSE b

\* { ...a, ...b } on field maps: b's value wins on a key collision
Spread(a, b) ==
    [k \in (DOMAIN a) \cup (DOMAIN b) |-> IF k \in DOMAIN b THEN b[k] ELSE a[k]]

\* ------------------------------------------------------------------------
\* Strings
\* ------------------------------------------------------------------------
Char(s, i) == SubSeq(s, i, i)

Digits == {"0", "1", "2", "3", "4", "5", "6", "7", "8", "9"}

UpperLetters ==
    {"A", "B", "C", "D", "E", "F", "G", "H", "I", "J", "K", "L", "M",
     "N", "O", "P", "Q", "R", "S", "T", "U", "V", "W", "X", "Y", "Z"}

\* the lower-case letter of each upper-case letter
LowerOf ==
    [A |-> "a", B |-> "b", C |-> "c", D |-> "d", E |-> "e", F |-> "f", G |-> "g",
     H |-> "h", I |-> "i", J |-> "j", K |-> "k", L |-> "l", M |-> "m", N |-> "n",
     O |-> "o", P |-> "p", Q |-> "q", R |-> "r", S |-> "s", T |-> "t", U |-> "u",
     V |-> "v", W |-> "w", X |-> "x", Y |-> "y", Z |-> "z"]

LowerLetters == {LowerOf[c] : c \in UpperLetters}

Whitespace == {" ", "\t", "\n"}

IsDigit(c) == c \in Digits

IsLetter(c) == c \in UpperLetters \/ c \in LowerLetters

LowerChar(c) == IF c \in UpperLetters THEN LowerOf[c] ELSE c

RECURSIVE ToLowerFrom(_, _)
ToLowerFrom(s, i) ==
    IF i > Len(s) THEN "" ELSE LowerChar(Char(s, i)) \o ToLowerFrom(s, i + 1)

\* String.prototype.toLowerCase
ToLowerCase(s) == ToLowerFrom(s, 1)

\* String.prototype.trim
Trim(s) ==
    LET keep == {i \in 1..Len(s) : Char(s, i) \notin Whitespace}
    IN IF keep = {} THEN ""
       ELSE SubSeq(s, CHOOSE i \in keep : \A j \in keep : i <= j,
                      CHOOSE i \in keep : \A j \in keep : j <= i)

\* s has k at position i
HasAt(s, k, i) == i >= 1 /\ i + Len(k) - 1 <= Len(s) /\ SubSeq(s, i, i + Len(k) - 1) = k

\* String.prototype.includes
Includes(s, k) == \E i \in 1..(Len(s) - Len(k) + 1) : HasAt(s, k, i)

Min(S) == CHOOSE x \in S : \A y \in S : x <= y

Max(S) == CHOOSE x \in S : \A y \in S : y <= x

\* the elements of a finite set of integers, ascending
RECURSIVE SortedSeq(_)
SortedSeq(S) == IF S = {} THEN <<>> ELSE <<Min(S)>> \o SortedSeq(S \ {Min(S)})

\* n characters of s from position i are all digits
DigitsAt(s, i, n) == i >= 1 /\ i + n - 1 <= Len(s) /\ \A j \in i..(i + n - 1) : IsDigit(Char(s, j))

\* the length of the run of digits of s at position i, at most max
DigitRun(s, i, max) ==
    LET stop == {j \in i..Len(s) : ~IsDigit(Char(s, j))}
        run == IF i > Len(s) THEN 0 ELSE IF stop = {} THEN Len(s) - i + 1 ELSE Min(stop) - i
    IN IF run > max THEN max ELSE run

\* s has k at position i, letters compared without case (the regex flag i)
HasAtCI(s, k, i) ==
    i >= 1 /\ i + Len(k) - 1 <= Len(s) /\ ToLowerCase(SubSeq(s, i, i + Len(k) - 1)) = ToLowerCase(k)

\* (?:am|pm) at position i, without case: its length, 0 when absent
AmPmAt(s, i) == IF HasAtCI(s, "am", i) \/ HasAtCI(s, "pm", i) THEN 2 ELSE 0

\* \s? at position i: its length
OptSpaceAt(s, i) == IF i <= Len(s) /\ Char(s, i) \in Whitespace THEN 1 ELSE 0

\* The leftmost match of a pattern given by M(s, i), the length of its match at
\* position i (0: no match at i): String.prototype.match(...)[0], "" with
\* found FALSE when match() returns null.
FirstMatch(s, M(_, _)) ==
    LET at == {i \in 1..Len(s) : M(s, i) > 0}
    IN IF at = {} THEN [found |-> FALSE, at |-> 0, text |-> ""]
       ELSE [found |-> TRUE, at |-> Min(at), text |-> SubSeq(s, Min(at), Min(at) + M(s, Min(at)) - 1)]

\* Number.parseInt of a run of digits
RECURSIVE ParseInt(_)
ParseInt(d) ==
    IF d = "" THEN 0
    ELSE 10 * ParseInt(SubSeq(d, 1, Len(d) - 1))
         + (CHOOSE n \in 0..9 : Char("0123456789", n + 1) = Char(d, Len(d)))

\* text.match(/\d+/g).map(n => parseInt(n)): the maximal runs of digits
NumbersOf(text) ==
    LET starts == {i \in 1..Len(text) : IsDigit(Char(text, i)) /\ (i = 1 \/ ~IsDigit(Char(text, i - 1)))}
        ord == SortedSeq(starts)
    IN [n \in 1..Len(ord) |-> ParseInt(SubSeq(text, ord[n], ord[n] + DigitRun(text, ord[n], Len(text)) - 1))]

\* /\d{1,2}:\d{2}\s?(?:am|pm)?/ at position i with k leading digits
ClockAltAt(s, i, k) ==
    IF DigitsAt(s, i, k) /\ HasAt(s, ":", i + k) /\ DigitsAt(s, i + k + 1, 2)
    THEN LET e == i + k + 3
             w == OptSpaceAt(s, e)
         IN k + 3 + w + AmPmAt(s, e + w)
    ELSE 0

\* /\d{1,2}\s?(?:am|pm)/ at position i with k leading digits
HourAltAt(s, i, k) ==
    IF DigitsAt(s, i, k) /\ AmPmAt(s, i + k + OptSpaceAt(s, i + k)) > 0
    THEN k + OptSpaceAt(s, i + k) + 2
    ELSE IF DigitsAt(s, i, k) /\ AmPmAt(s, i + k) > 0 THEN k + 2 ELSE 0

\* the first non-zero of a sequence of lengths: alternatives in regex order
FirstNonZero(ls) ==
    IF \A n \in 1..Len(ls) : ls[n] = 0 THEN 0
    ELSE ls[Min({n \in 1..Len(ls) : ls[n] > 0})]

\* /\d{1,2}:\d{2}\s?(?:am|pm)?|\d{1,2}\s?(?:am|pm)/gi at position i
TimeExprAt(s, i) ==
    FirstNonZero(<<ClockAltAt(s, i, 2), ClockAltAt(s, i, 1), HourAltAt(s, i, 2), HourAltAt(s, i, 1)>>)

\* the run of characters of s from position i that satisfy Ok
RunLen(s, i, Ok(_)) ==
    LET stop == {j \in i..Len(s) : ~Ok(Char(s, j))}
    IN IF i > Len(s) THEN 0 ELSE IF stop = {} THEN Len(s) - i + 1 ELSE Min(stop) - i

NotSpace(c) == c \notin Whitespace

\* /https?:\/\/[^\s]+/g at position i
UrlAt(s, i) ==
    LET h == IF HasAt(s, "https://", i) THEN 8 ELSE IF HasAt(s, "http://", i) THEN 7 ELSE 0
        r == RunLen(s, i + h, NotSpace)
    IN IF h > 0 /\ r > 0 THEN h + r ELSE 0

EmailLocalChar(c) == IsLetter(c) \/ IsDigit(c) \/ c \in {".", "_", "%", "+", "-"}

EmailDomainChar(c) == IsLetter(c) \/ IsDigit(c) \/ c \in {".", "-"}

\* /[a-zA-Z0-9._%+-]+@[a-zA-Z0-9.-]+\.[a-zA-Z]{2,}/g at position i
EmailAt(s, i) ==
    LET l == RunLen(s, i, EmailLocalChar)
        d == i + l + 1
        r == RunLen(s, d, EmailDomainChar)
        \* the dots of the domain run that leave a label before and two letters after
        dots == {j \in (d + 1)..(d + r - 1) : Char(s, j) = "." /\ RunLen(s, j + 1, IsLetter) >= 2}
    IN IF l > 0 /\ HasAt(s, "@", i + l) /\ dots # {}
       THEN (Max(dots) + RunLen(s, Max(dots) + 1, IsLetter)) - i + 1
       ELSE 0

\* /\d{1,2}\/\d{1,2}\/\d{2,4}/ at position i, with k and m digits in the first two groups
SlashDateTry(s, i, k, m) ==
    IF DigitsAt(s, i, k) /\ HasAt(s, "/", i + k) /\ DigitsAt(s, i + k + 1, m)
       /\ HasAt(s, "/", i + k + 1 + m) /\ DigitsAt(s, i + k + m + 2, 2)
    THEN k + m + 2 + DigitRun(s, i + k + m + 2, 4)
    ELSE 0

SlashDateAt(s, i) ==
    FirstNonZero(<<SlashDateTry(s, i, 2, 2), SlashDateTry(s, i, 2, 1),
                   SlashDateTry(s, i, 1, 2), SlashDateTry(s, i, 1, 1)>>)

\* /\d{4}-\d{2}-\d{2}/ at position i
IsoDateAt(s, i) ==
    IF DigitsAt(s, i, 4) /\ HasAt(s, "-", i + 4) /\ DigitsAt(s, i + 5, 2)
       /\ HasAt(s, "-", i + 7) /\ DigitsAt(s, i + 8, 2)
    THEN 10 ELSE 0

\* a one-key field map when present, the empty map otherwise
Field(present, key, value) == IF present THEN [k \in {key} |-> value] ELSE EmptyFields

\* extractEntities(text): absent signals leave their key out
extractEntities(text) ==
    LET numbers == NumbersOf(text)
        timeMatch == FirstMatch(text, TimeExprAt)
        urlMatch == FirstMatch(text, UrlAt)
        emailMatch == FirstMatch(text, EmailAt)
        slash == FirstMatch(text, SlashDateAt)
        iso == FirstMatch(text, IsoDateAt)
    IN Spread(Spread(Spread(Spread(
         Field(Len(numbers) > 0, "numbers", Arr(numbers)),
         Field(timeMatch.found, "time", Str(timeMatch.text))),
         Field(urlMatch.found, "url", Str(urlMatch.text))),
         Field(emailMatch.found, "email", Str(emailMatch.text))),
         Field(slash.found \/ iso.found, "date", Str(IF slash.found THEN slash.text ELSE iso.text)))

\* ------------------------------------------------------------------------
\* The handlers of the fallback patterns
\* ------------------------------------------------------------------------
IsSpace(c) == c \in Whitespace

\* the regex dot: any character but a line terminator
NotNewline(c) == c # "\n"

\* the first of the alternatives (in regex order) that s has at position i
\* without case, 0 when none
AltAt(s, alts, i) ==
    LET hit == {n \in 1..Len(alts) : HasAtCI(s, alts[n], i)}
    IN IF hit = {} THEN 0 ELSE Min(hit)

\* s.replace(/a|b|.../gi, rep): every match, scanning left to right
RECURSIVE ReplaceFrom(_, _, _, _)
ReplaceFrom(s, i, alts, rep) ==
    IF i > Len(s) THEN ""
    ELSE IF AltAt(s, alts, i) > 0
         THEN rep \o ReplaceFrom(s, i + Len(alts[AltAt(s, alts, i)]), alts, rep)
         ELSE Char(s, i) \o ReplaceFrom(s, i + 1, alts, rep)

ReplaceAllCI(s, alts, rep) == ReplaceFrom(s, 1, alts, rep)

\* s from position m to the end of its line: what (.+) takes from m
RestOfLine(s, m) == SubSeq(s, m, m + RunLen(s, m, NotNewline) - 1)

\* /(?:a|b|...)\s+(.+)/i with alternative n at position i: where the group
\* starts, 0 when there is no match. \s+ is greedy and gives characters back
\* until (.+) has a character to take.
GroupStartAt(s, alts, n, i) ==
    LET j == i + Len(alts[n])
        starts == {m \in (j + 1)..(j + RunLen(s, j, IsSpace)) : m <= Len(s) /\ NotNewline(Char(s, m))}
    IN IF HasAtCI(s, alts[n], i) /\ starts # {} THEN Max(starts) ELSE 0

\* text.match(/(?:a|b|...)\s+(.+)/i): group 1 of the leftmost match
KeywordThenRest(s, alts) ==
    LET hits == {i \in 1..Len(s) : \E n \in 1..Len(alts) : GroupStartAt(s, alts, n, i) > 0}
        i == Min(hits)
        n == Min({a \in 1..Len(alts) : GroupStartAt(s, alts, a, i) > 0})
    IN IF hits = {} THEN [found |-> FALSE, text |-> ""]
       ELSE [found |-> TRUE, text |-> RestOfLine(s, GroupStartAt(s, alts, n, i))]

\* the handler of the search pattern
SearchHandler(text) ==
    LET query == Trim(ReplaceAllCI(text, <<"search for", "look up", "find", "google">>, ""))
    IN [message |-> Str("I'll help you search for \"" \o query \o "\"."),
        entities |-> [query |-> Str(query), action |-> Str("search")]]

\* the handler of the open_website pattern
OpenWebsiteHandler(text) ==
    LET siteMatch == KeywordThenRest(text, <<"open", "go to", "navigate to", "visit", "launch">>)
        site == IF siteMatch.found THEN Trim(siteMatch.text) ELSE "the website"
    IN [message |-> Str("Opening " \o site \o "..."),
        entities |-> [website |-> Str(site), action |-> Str("open")]]

\* /remind me (?:to )?(.+)/i at position i: where the group starts, 0 when no match
RemindAt(s, i) ==
    LET j == i + 10
    IN IF ~HasAtCI(s, "remind me ", i) THEN 0
       ELSE IF HasAtCI(s, "to ", j) /\ j + 3 <= Len(s) /\ NotNewline(Char(s, j + 3)) THEN j + 3
       ELSE IF j <= Len(s) /\ NotNewline(Char(s, j)) THEN j
       ELSE 0

\* /\d{1,2}:\d{2}(?:\s?(?:am|pm))?/ at position i with k leading digits
ClockStrictAt(s, i, k) ==
    IF DigitsAt(s, i, k) /\ HasAt(s, ":", i + k) /\ DigitsAt(s, i + k + 1, 2)
    THEN LET e == i + k + 3
             w == OptSpaceAt(s, e)
         IN k + 3 + (IF AmPmAt(s, e + w) > 0 THEN w + 2 ELSE 0)
    ELSE 0

\* /at (\d{1,2}:\d{2}(?:\s?(?:am|pm))?|\d{1,2}\s?(?:am|pm))/i at position i:
\* the length of group 1
AtTimeAt(s, i) ==
    IF HasAtCI(s, "at ", i)
    THEN FirstNonZero(<<ClockStrictAt(s, i + 3, 2), ClockStrictAt(s, i + 3, 1),
                        HourAltAt(s, i + 3, 2), HourAltAt(s, i + 3, 1)>>)
    ELSE 0

\* /at .+/i at position i: the length of the match
AtRestAt(s, i) ==
    IF HasAtCI(s, "at ", i) /\ i + 3 <= Len(s) /\ NotNewline(Char(s, i + 3))
    THEN 3 + RunLen(s, i + 3, NotNewline)
    ELSE 0

\* s.replace(/at .+/i, ''): the first match only
RemoveAtRest(s) ==
    LET m == FirstMatch(s, AtRestAt)
    IN IF m.found THEN SubSeq(s, 1, m.at - 1) \o SubSeq(s, m.at + Len(m.text), Len(s)) ELSE s

\* the handler of the reminder pattern
ReminderHandler(text) ==
    LET starts == {i \in 1..Len(text) : RemindAt(text, i) > 0}
        reminder == IF starts = {} THEN "that" ELSE Trim(RestOfLine(text, RemindAt(text, Min(starts))))
        at == {i \in 1..Len(reminder) : AtTimeAt(reminder, i) > 0}
        time == IF at = {} THEN Null
                ELSE Str(SubSeq(reminder, Min(at) + 3, Min(at) + 2 + AtTimeAt(reminder, Min(at))))
        task == IF Truthy(time) THEN Trim(RemoveAtRest(reminder)) ELSE reminder
    IN [message |-> Str("I'll remind you to " \o task
                        \o (IF Truthy(time) THEN " at " \o time.s ELSE "") \o "."),
        entities |-> [task |-> Str(task), time |-> time, action |-> Str("reminder")]]

ExprChar(c) == IsDigit(c) \/ IsSpace(c) \/ c \in {"+", "-", "*", "/", "(", ")", "."}

\* s.replace(/[^0-9+\-*/().\s]/g, '')
RECURSIVE KeepExprChars(_, _)
KeepExprChars(s, i) ==
    IF i > Len(s) THEN ""
    ELSE (IF ExprChar(Char(s, i)) THEN Char(s, i) ELSE "") \o KeepExprChars(s, i + 1)

\* the chain of replacements that turns the words of a calculation into operators
CalcExpression(text) ==
    LET mathMatch == KeywordThenRest(text, <<"calculate", "what is">>)
        e0 == IF mathMatch.found THEN mathMatch.text ELSE text
        e1 == ReplaceAllCI(e0, <<"plus">>, "+")
        e2 == ReplaceAllCI(e1, <<"add">>, "+")
        e3 == ReplaceAllCI(e2, <<"minus">>, "-")
        e4 == ReplaceAllCI(e3, <<"subtract">>, "-")
        e5 == ReplaceAllCI(e4, <<"times">>, "*")
        e6 == ReplaceAllCI(e5, <<"multiplyed by", "multiply by">>, "*")
        e7 == ReplaceAllCI(e6, <<"divided by">>, "/")
    IN Trim(KeepExprChars(e7, 1))

\* eval(expression) where the expression is `a`, or `a op b` with one operator
\* between two runs of digits and an integer result: known TRUE and the value.
\* Every other expression is left to the JavaScript engine: known FALSE.
EvalSimple(expression) ==
    LET a == DigitRun(expression, 1, Len(expression))
        w1 == RunLen(expression, a + 1, IsSpace)
        o == a + w1 + 1
        op == IF o <= Len(expression) THEN Char(expression, o) ELSE ""
        w2 == RunLen(expression, o + 1, IsSpace)
        b == DigitRun(expression, o + w2 + 1, Len(expression))
        x == ParseInt(SubSeq(expression, 1, a))
        y == ParseInt(SubSeq(expression, o + w2 + 1, o + w2 + b))
    IN IF a > 0 /\ a = Len(expression) THEN [known |-> TRUE, value |-> x]
       ELSE IF a > 0 /\ b > 0 /\ o + w2 + b = Len(expression) /\ op \in {"+", "-", "*"}
            THEN [known |-> TRUE, value |-> CASE op = "+" -> x + y [] op = "-" -> x - y [] op = "*" -> x * y]
       ELSE IF a > 0 /\ b > 0 /\ o + w2 + b = Len(expression) /\ op = "/" /\ y # 0 /\ x % y = 0
            THEN [known |-> TRUE, value |-> x \div y]
       ELSE [known |-> FALSE, value |-> 0]

\* the handler of the calculation pattern; env.evalThrows says whether the
\* engine's eval threw on an expression EvalSimple leaves to it, and the value
\* of such an expression is kept as the expression itself
CalculationResult(expression, ev, env) ==
    IF expression = ""
    THEN [message |-> Str("I couldn't understand that calculation. Try asking like 'what is 5 plus 3?'"),
          entities |-> EmptyFields]
    ELSE IF ev.known
    THEN [message |-> Str("The answer is " \o ToString(ev.value) \o "."),
          entities |-> [expression |-> Str(expression), result |-> Num(ev.value), action |-> Str("calculate")]]
    ELSE IF env.evalThrows
    THEN [message |-> Str("Sorry, I couldn't calculate that. Please try again."),
          entities |-> EmptyFields]
    ELSE [message |-> Str("The answer is eval(" \o expression \o ")."),
          entities |-> [expression |-> Str(expression), result |-> [t |-> "evaluated", src |-> expression],
                        action |-> Str("calculate")]]

\* the handler: the expression is computed once, then evaluated
CalculationHandler(text, env) ==
    CHOOSE r \in {CalculationResult(expression, EvalSimple(expression), env) :
                    expression \in {CalcExpression(text)}} : TRUE

\* the literals of the joke handler
Jokes ==
    << "Why don't scientists trust atoms? Because they make up everything!",
       "I told my wife she was drawing her eyebrows too high. She looked surprised.",
       "Why did the scarecrow win an award? He was outstanding in his field!",
       "What do you call a fake noodle? An impasta!",
       "Why don't eggs tell jokes? They'd crack each other up!",
       "What do you call a bear with no teeth? A gummy bear!",
       "Why did the math book look sad? Because it had too many problems.",
       "What do you call a pile of cats? A meowtain!",
       "Why don't oysters donate to charity? Because they're shellfish!",
       "What did the ocean say to the beach? Nothing, it just waved!" >>

\* What a run of the rule engine reads besides its text: the clock as
\* toLocaleTimeString and toLocaleDateString print it, the index
\* Math.floor(Math.random() * jokes.length) + 1, and the engine's eval.
\* An environment is a record [time, date, joke, evalThrows].

\* ------------------------------------------------------------------------
\* The fallback rule engine
\* ------------------------------------------------------------------------
\* The pattern table in declaration order. handler "" is a pattern without a
\* handler; message Undef and entities "absent" are fields the literal leaves
\* out. The bullets of the help message are written with "*".
patterns ==
    << [intent |-> "greeting",
        keywords |-> <<"hello", "hi", "hey", "greetings", "good morning", "good afternoon", "good evening">>,
        message |-> Str("Hello! I'm VoiceReplica. How can I help you today?"),
        entities |-> Undef, handler |-> "", confidence |-> 85],
       [intent |-> "farewell",
        keywords |-> <<"bye", "goodbye", "see you", "farewell", "good night">>,
        message |-> Str("Goodbye! Have a great day!"),
        entities |-> Undef, handler |-> "", confidence |-> 85],
       [intent |-> "thanks",
        keywords |-> <<"thank", "thanks", "appreciate", "grateful">>,
        message |-> Str("You're welcome! Happy to help!"),
        entities |-> Undef, handler |-> "", confidence |-> 85],
       [intent |-> "help",
        keywords |-> <<"help", "assist", "what can you do", "support">>,
        message |-> Str("I can help you with:\n* Answering questions\n* Checking time and date\n* Opening websites\n* Setting reminders\n* Simple calculations\n* Telling jokes\n* And much more!"),
        entities |-> Undef, handler |-> "", confidence |-> 80],
       [intent |-> "time",
        keywords |-> <<"time", "what time", "what's the time", "current time">>,
        message |-> Undef,
        entities |-> Undef, handler |-> "time", confidence |-> 90],
       [intent |-> "date",
        keywords |-> <<"date", "what date", "what's the date", "today", "what day">>,
        message |-> Undef,
        entities |-> Undef, handler |-> "date", confidence |-> 90],
       [intent |-> "weather",
        keywords |-> <<"weather", "temperature", "forecast", "raining", "sunny", "cloudy">>,
        message |-> Str("I don't have real-time weather data yet, but you can check your local weather service!"),
        entities |-> Obj([needsWeatherAPI |-> Bool(TRUE)]), handler |-> "", confidence |-> 75],
       [intent |-> "search",
        keywords |-> <<"search for", "look up", "find", "google">>,
        message |-> Undef,
        entities |-> Undef, handler |-> "search", confidence |-> 85],
       [intent |-> "open_website",
        keywords |-> <<"open", "go to", "navigate to", "visit", "launch">>,
        message |-> Undef,
        entities |-> Undef, handler |-> "open_website", confidence |-> 88],
       [intent |-> "reminder",
        keywords |-> <<"remind me", "set reminder", "remember to", "don't forget">>,
        message |-> Undef,
        entities |-> Undef, handler |-> "reminder", confidence |-> 82],
       [intent |-> "calculation",
        keywords |-> <<"calculate", "what is", "plus", "minus", "times", "divided", "multiply", "add", "subtract">>,
        message |-> Undef,
        entities |-> Undef, handler |-> "calculation", confidence |-> 85],
       [intent |-> "joke",
        keywords |-> <<"joke", "make me laugh", "something funny", "tell me a joke", "funny">>,
        message |-> Undef,
        entities |-> Undef, handler |-> "joke", confidence |-> 80] >>

\* a bug the claims must notice: every handler puts the clock into its message
RunHandlerStamped(name, text, env) ==
    [message |-> Str("At " \o env.time \o ": " \o name), entities |-> EmptyFields]

\* data.handler(text)
RunHandler(name, text, env) ==
    CASE name = "time" ->
           [message |-> Str("The current time is " \o env.time \o "."),
            entities |-> [time |-> Str(env.time)]]
      [] name = "date" ->
           [message |-> Str("Today is " \o env.date \o "."),
            entities |-> [date |-> Str(env.date)]]
      [] name = "search" -> SearchHandler(text)
      [] name = "open_website" -> OpenWebsiteHandler(text)
      [] name = "reminder" -> ReminderHandler(text)
      [] name = "calculation" -> CalculationHandler(text, env)
      [] name = "joke" ->
           [message |-> Str(Jokes[env.joke]), entities |-> [type |-> Str("joke")]]

\* lowerText.includes(keyword) for some keyword of pattern p
PatternMatches(lowerText, p) ==
    \E k \in 1..Len(patterns[p].keywords) : Includes(lowerText, patterns[p].keywords[k])

\* a bug the claims must notice: the last matching pattern instead of the first
LastMatch(lowerText) ==
    LET hit == {p \in 1..Len(patterns) : PatternMatches(lowerText, p)}
    IN IF hit = {} THEN 0 ELSE Max(hit)

\* The two loops over Object.entries(patterns) and data.keywords: the index of
\* the pattern that returns, 0 when the loops fall through.
MatchedPattern(lowerText) ==
    LET hit == {p \in 1..Len(patterns) : PatternMatches(lowerText, p)}
    IN IF hit = {} THEN 0 ELSE Min(hit)

FallbackModel == "fallback-rule-based"

\* a bug the claims must notice: the unknown result leaves the extractor out
FallbackWithoutExtractor(text, p, result) ==
    IF p > 0
    THEN Obj([intent |-> Str(patterns[p].intent),
              entities |-> Obj(Spread(IF patterns[p].handler # ""
                                      THEN Spread(OrElse(patterns[p].entities, EmptyObj).f, result.entities)
                                      ELSE OrElse(patterns[p].entities, EmptyObj).f,
                                      extractEntities(text))),
              message |-> IF patterns[p].handler # "" THEN result.message ELSE patterns[p].message,
              confidence |-> Num(patterns[p].confidence),
              model |-> Str(FallbackModel)])
    ELSE Obj([intent |-> Str("unknown"),
              entities |-> EmptyObj,
              message |-> Str("I heard: \"" \o text \o "\"."),
              confidence |-> Num(30),
              model |-> Str(FallbackModel)])

\* The body of the match loop for pattern p, and the return after the loops
\* when p = 0, with result the value of the pattern's handler.
FallbackResult(text, p, result) ==
    LET data == patterns[p]
        entities0 == OrElse(data.entities, EmptyObj).f
        message == IF data.handler # "" THEN result.message ELSE data.message
        entities == IF data.handler # "" THEN Spread(entities0, result.entities) ELSE entities0
    IN IF p > 0
       THEN Obj([intent |-> Str(data.intent),
                 entities |-> Obj(Spread(entities, extractEntities(text))),
                 message |-> message,
                 confidence |-> Num(data.confidence),
                 model |-> Str(FallbackModel)])
       ELSE Obj([intent |-> Str("unknown"),
                 entities |-> Obj(extractEntities(text)),
                 message |-> Str("I heard: \"" \o text \o "\". I'm not sure how to help with that yet. Try saying 'help' to see what I can do!"),
                 confidence |-> Num(30),
                 model |-> Str(FallbackModel)])

\* the handler of pattern p run on text (p = 0, or a pattern without handler: none)
HandlerResult(text, env, p) ==
    IF p = 0 THEN [message |-> Undef, entities |-> EmptyFields]
    ELSE IF patterns[p].handler = "" THEN [message |-> Undef, entities |-> EmptyFields]
    ELSE RunHandler(patterns[p].handler, text, env)

\* fallbackIntentRecognition(text), run in environment env
fallbackIntentRecognition(text, env) ==
    CHOOSE r \in {FallbackResult(text, p, HandlerResult(text, env, p)) :
                    p \in {MatchedPattern(lowerText) : lowerText \in {Trim(ToLowerCase(text))}}} : TRUE

\* ------------------------------------------------------------------------
\* Configuration
\* ------------------------------------------------------------------------
\* config.maxTextLength as configured for the model (MAX_TEXT_LENGTH; the
\* default of the code is 1000)
MaxTextLength == 40

\* config.llm.model
LlmModel == "grok-beta"

\* ------------------------------------------------------------------------
\* The upstream model and its reply text
\* ------------------------------------------------------------------------
\* A reply text is a sequence of pieces separated by blanks:
\*   "{" and "}"  a lone brace
\*   "prose"      text with no brace in it that is no JSON
\*   "obj"        the text of one well-formed JSON object, the object `members`
\*   "null", "5", "\"hi\""   the JSON literals
BracePieces == {"{", "}", "prose", "obj"}

\* the longest reply text made of brace pieces
MaxReplyLen == 2

LiteralReplies == {<<"null">>, <<"5">>, <<"\"hi\"">>}

ReplyTexts == UNION {[1..n -> BracePieces] : n \in 0..MaxReplyLen} \cup LiteralReplies

\* a reply as the schema of the request describes it
ModelReply(intent, query, website, url) ==
    Obj([success |-> Bool(TRUE),
         data |-> Obj([intent |-> Str(intent),
                       entities |-> Obj([query |-> Str(query), action |-> Str(""), from |-> Str(""),
                                         to |-> Str(""), date |-> Str(""), website |-> Str(website),
                                         url |-> Str(url), form_fields |-> EmptyObj]),
                       message |-> Str("On it."),
                       confidence |-> Num(90),
                       metadata |-> Obj([processingTime |-> Str("12ms"),
                                         timestamp |-> Str("2026-02-07T07:39:45.425Z"),
                                         model |-> Str("grok-4")])]),
         message |-> Str("Command processed successfully")])

\* the enumeration of data.intent in the schema sent by the intent service
SchemaIntentsService ==
    {"search", "qna", "summarize", "form_fill", "book_ticket", "website_search", "navigation", "other"}

\* the enumeration of data.intent in the schema sent by the copy in app.js
SchemaIntentsApp ==
    {"search", "qna", "summarize", "form_fill", "book_ticket", "website_search", "open_site", "other"}

\* The objects the upstream may put in its reply: replies that follow the
\* schema of either copy, and objects that do not (nothing in callGrok checks
\* the parsed value; the validation is commented out).
ReplyObjects ==
    { ModelReply("navigation", "", "youtube", "https://www.youtube.com"),
      ModelReply("open_site", "", "youtube", ""),
      ModelReply("search", "best laptops", "", ""),
      ModelReply("play_music", "", "", ""),
      Obj([success |-> Bool(TRUE), data |-> Obj([intent |-> Str("qna")])]),
      Obj([success |-> Bool(FALSE), data |-> Null]),
      Obj([intent |-> Str("summarize"), entities |-> EmptyObj, message |-> Str("Summary."),
           confidence |-> Num(80), model |-> Str("grok-4")]) }

NoObject == Obj([success |-> Bool(FALSE), data |-> Null])

\* no model call has settled
NoUpstream == [kind |-> "none", content |-> <<>>, members |-> NoObject, status |-> Undef]

\* JSON.parse(content)
JSONParse(content, members) ==
    IF content = <<"obj">> THEN [ok |-> TRUE, value |-> members]
    ELSE IF content = <<"{", "}">> THEN [ok |-> TRUE, value |-> EmptyObj]
    ELSE IF content = <<"null">> THEN [ok |-> TRUE, value |-> Null]
    ELSE IF content = <<"5">> THEN [ok |-> TRUE, value |-> Num(5)]
    ELSE IF content = <<"\"hi\"">> THEN [ok |-> TRUE, value |-> Str("hi")]
    ELSE [ok |-> FALSE, value |-> Undef]

\* content.match(/\{[\s\S]*\}/): from the first "{" of the text to its last "}"
BraceSpan(content) ==
    LET opens == {n \in 1..Len(content) : content[n] \in {"{", "obj"}}
        closes == {n \in 1..Len(content) : content[n] \in {"}", "obj"}}
    IN IF opens # {} /\ closes # {} /\ Min(opens) <= Max(closes)
       THEN [found |-> TRUE, text |-> SubSeq(content, Min(opens), Max(closes))]
       ELSE [found |-> FALSE, text |-> <<>>]

\* the inner try/catch of callGrok: parse, and on failure parse the brace span
ParseReply(content, members) ==
    IF JSONParse(content, members).ok THEN JSONParse(content, members)
    ELSE IF BraceSpan(content).found THEN JSONParse(BraceSpan(content).text, members)
    ELSE [ok |-> FALSE, value |-> Undef]

\* What the call of grokClient.responses.create can do: resolve with an
\* output_text, or reject with an error that has a status or none. The object
\* of an "obj" piece is told apart only in the texts whose parsing yields it.
Upstreams ==
    {[kind |-> "reply", content |-> c, members |-> NoObject, status |-> Undef] : c \in ReplyTexts}
    \cup {[kind |-> "reply", content |-> c, members |-> m, status |-> Undef] :
            c \in {x \in ReplyTexts : ParseReply(x, NoObject) = [ok |-> TRUE, value |-> NoObject]},
            m \in ReplyObjects}
    \cup {[kind |-> "error", content |-> <<>>, members |-> NoObject, status |-> st] :
            st \in {Num(401), Num(429), Num(500), Num(503), Num(502), Num(404), Undef}}

\* ------------------------------------------------------------------------
\* Errors and results
\* ------------------------------------------------------------------------
\* new ApiError(statusCode, message)
ApiError(statusCode, message) == [name |-> "ApiError", statusCode |-> statusCode, message |-> message]

NoError == [name |-> "", statusCode |-> 0, message |-> ""]

\* How a call ends: kind "none" (not ended), "returned" with value, "thrown" with error
Pending == [kind |-> "none", value |-> Undef, error |-> NoError]

Returned(v) == [kind |-> "returned", value |-> v, error |-> NoError]

Thrown(e) == [kind |-> "thrown", value |-> Undef, error |-> e]

\* ------------------------------------------------------------------------
\* callGrok
\* ------------------------------------------------------------------------
\* callGrok ended as `end`, having run the rule engine or not
Ended(end, ranFallback) == [end |-> end, ranFallback |-> ranFallback]

\* a bug the claims must notice: 401 and 429 degrade to the rule engine as 5xx does
CatchAlwaysDegrades(status, fallback) == Ended(Returned(fallback), TRUE)

\* a bug the claims must notice: a rate-limited call degrades to the rule engine
CatchDegradesRateLimit(status, fallback) ==
    IF status = Num(401) THEN Ended(Thrown(ApiError(502, "Invalid LLM API key configuration")), FALSE)
    ELSE Ended(Returned(fallback), TRUE)

\* a bug the claims must notice: 500 and 503 are surfaced instead of degraded
CatchSurfacesUnavailable(status, fallback) ==
    IF status = Num(401) THEN Ended(Thrown(ApiError(502, "Invalid LLM API key configuration")), FALSE)
    ELSE IF status = Num(429) THEN Ended(Thrown(ApiError(429, "Rate limit exceeded. Please try again later.")), FALSE)
    ELSE IF status = Num(500) \/ status = Num(503) THEN Ended(Thrown(ApiError(503, "Grok service unavailable")), FALSE)
    ELSE Ended(Returned(fallback), TRUE)

\* The catch block of callGrok for an error with the given status (Undef: the
\* error has none, as the Error and SyntaxError of the parsing have none);
\* fallback is the value of fallbackIntentRecognition(userText).
CallGrokCatch(status, fallback) ==
    IF status = Num(401) THEN Ended(Thrown(ApiError(502, "Invalid LLM API key configuration")), FALSE)
    ELSE IF status = Num(429) THEN Ended(Thrown(ApiError(429, "Rate limit exceeded. Please try again later.")), FALSE)
    ELSE IF status = Num(500) \/ status = Num(503) THEN Ended(Returned(fallback), TRUE)
    ELSE Ended(Returned(fallback), TRUE)

\* callGrok from the point where the awaited model call settles as `up`;
\* fallback is the value of fallbackIntentRecognition(userText)
CallGrokResume(up, fallback) ==
    IF up.kind = "error" THEN CallGrokCatch(up.status, fallback)
    ELSE IF ~ParseReply(up.content, up.members).ok THEN CallGrokCatch(Undef, fallback)
    ELSE Ended(Returned(ParseReply(up.content, up.members).value), FALSE)

\* callGrok when grokClient is null
CallGrokWithoutClient(fallback) == Ended(Returned(fallback), TRUE)

\* ------------------------------------------------------------------------
\* processIntent
\* ------------------------------------------------------------------------
\* a bug the claims must notice: the length is checked before trimming
ValidateUntrimmed(text) ==
    IF ~Truthy(text) \/ text.t # "string" THEN Thrown(ApiError(400, "Invalid text input"))
    ELSE IF Len(Trim(text.s)) = 0 THEN Thrown(ApiError(400, "Text cannot be empty"))
    ELSE IF Len(text.s) > MaxTextLength
         THEN Thrown(ApiError(400, "Text exceeds maximum length of " \o ToString(MaxTextLength) \o " characters"))
    ELSE Returned(Str(Trim(text.s)))

\* The validation at the head of processIntent: the error it throws, or the
\* trimmed text it hands to callGrok.
ValidateText(text) ==
    IF ~Truthy(text) \/ text.t # "string" THEN Thrown(ApiError(400, "Invalid text input"))
    ELSE IF Len(Trim(text.s)) = 0 THEN Thrown(ApiError(400, "Text cannot be empty"))
    ELSE IF Len(Trim(text.s)) > MaxTextLength
         THEN Thrown(ApiError(400, "Text exceeds maximum length of " \o ToString(MaxTextLength) \o " characters"))
    ELSE Returned(Str(Trim(text.s)))

\* the object processIntent returns, in the intent service: result?.data?.intent || ...
IntentResultService(result) ==
    LET data == OptProp(result, "data")
    IN Returned(Obj([intent |-> OrElse(OptProp(data, "intent"), Str("unknown")),
                     entities |-> OrElse(OptProp(data, "entities"), EmptyObj),
                     message |-> OrElse(OptProp(data, "message"), Str("Processing complete")),
                     confidence |-> OrElse(OptProp(data, "confidence"), Num(50)),
                     model |-> OrElse(OptProp(OptProp(data, "metadata"), "model"), Str(LlmModel))]))

\* the object processIntent returns, in the copy in app.js: result.intent || ...
\* reading a property of null throws a TypeError, which the catch block of
\* processIntent turns into ApiError(500)
IntentResultApp(result) ==
    IF PropThrows(result) THEN Thrown(ApiError(500, "Failed to process intent"))
    ELSE Returned(Obj([intent |-> OrElse(OptProp(result, "intent"), Str("unknown")),
                       entities |-> OrElse(OptProp(result, "entities"), EmptyObj),
                       message |-> OrElse(OptProp(result, "message"), Str("Processing complete")),
                       confidence |-> OrElse(OptProp(result, "confidence"), Num(50)),
                       model |-> OrElse(OptProp(result, "model"), Str(LlmModel))]))

\* processIntent after callGrok ended as `grok`: an ApiError is thrown on
\* unchanged, a returned value is normalised
ProcessIntentFinish(b, grok) ==
    IF grok.kind = "thrown"
    THEN (IF grok.error.name = "ApiError" THEN grok
          ELSE Thrown(ApiError(500, "Failed to process intent")))
    ELSE IF b = "service" THEN IntentResultService(grok.value)
    ELSE IntentResultApp(grok.value)

\* ------------------------------------------------------------------------
\* The inputs of the model
\* ------------------------------------------------------------------------
RECURSIVE Repeat(_, _)
Repeat(c, n) == IF n = 0 THEN "" ELSE c \o Repeat(c, n - 1)

\* the commands that are strings
CommandStrings ==
    { "", "   ",
      "hello", "Hello and goodbye", "something funny", "tell me a JOKE today",
      "tell me a joke", "what time is it", "find the weather", "open google",
      "  Open YouTube \n",
      "remind me to call mom at 5:30 pm", "what is 5 plus 3", "fill the form",
      Repeat("z", MaxTextLength),
      " " \o Repeat("z", MaxTextLength) \o " ",
      Repeat("z", MaxTextLength + 1),
      Repeat(" ", MaxTextLength) \o "joke" }

\* the values processIntent may be called with
Commands ==
    {Str(c) : c \in CommandStrings} \cup {Undef, Null, Num(0), Num(5), Bool(TRUE), EmptyObj}

\* the environments a run of the rule engine may meet
RunEnvs ==
    { [time |-> "09:05:03 AM", date |-> "Monday, November 2, 2026", joke |-> 1, evalThrows |-> FALSE],
      [time |-> "11:59:59 PM", date |-> "Tuesday, November 3, 2026", joke |-> Len(Jokes), evalThrows |-> TRUE] }

NoEnv == [time |-> "", date |-> "", joke |-> 0, evalThrows |-> FALSE]

\* the OpenAI handles the process may construct
MaxHandles == 2

\* the requests sent to tabs while their pages are watched
MaxSends == 3

\* the tabs requests are sent to
InjectedTabs == {1, 2}

\* ------------------------------------------------------------------------
\* State
\* ------------------------------------------------------------------------
VARIABLES
    build,          \* which copy of the intent service runs: "service", "app"
    grokClient,     \* the module's handle: 0 is null, n > 0 the n-th handle constructed
    handles,        \* how many handles were constructed
    pc,             \* processIntent: "idle", "awaiting" (the model call), "done"
    text,           \* the argument of processIntent
    userText,       \* the argument of callGrok, Undef when it was not called
    env,            \* the environment the rule engine ran in, NoEnv when it did not
    handle,         \* the handle the model call of this execution was issued on, 0: none
    upstream,       \* how the model call settled, NoUpstream before
    modelCalls,     \* calls of grokClient.responses.create in this execution
    fallbackCalls,  \* calls of fallbackIntentRecognition in this execution
    fallbackArg,    \* the argument of the last of those calls
    fallbackValue,  \* the value of the last of those calls
    grok,           \* how callGrok ended
    outcome         \* how processIntent ended

intentVars == <<build, grokClient, handles, pc, text, userText, env, handle, upstream,
                modelCalls, fallbackCalls, fallbackArg, fallbackValue, grok, outcome>>

\* The dispatcher (IntentHandler) and the chrome APIs it drives
VARIABLES
    dispatchInput,  \* the argument of the last IntentHandler.process, Undef before
    actionResult,   \* `result` of process: what the selected handler returned
    dispatchEnd,    \* how that call of process ended
    chromeCalls     \* the chrome API calls execute() made in that call

dispatcherVars == <<dispatchInput, actionResult, dispatchEnd, chromeCalls>>

\* The content script: its onMessage listener in a page
VARIABLES
    msg,            \* the message delivered to the listener, Undef when none is
    dom,            \* the document the message met
    contentPc,      \* the listener's async body: "idle", "awaiting", "replied"
    timers,         \* the wait() timers the awaited handler has yet to pass
    settling,       \* how the awaited handler will settle
    responses,      \* the arguments of the calls of sendResponse for msg
    effects         \* what the handler did to the page, in order

contentVars == <<msg, dom, contentPc, timers, settling, responses, effects>>

\* The messenger (sendToContent) of the background script
VARIABLES
    sendPc,         \* sendToContent: "idle", "queryActive", "queryAll", "creating", "loadWait",
                    \* "injecting", "listenerWait", "sending", "done"
    sendPayload,    \* the argument of sendToContent, Undef when it is not running
    openTabs,       \* the browser's tabs: [active: the tabs of the first query, all: of the second]
    tab,            \* the local `tab`, Undef while none is selected
    apiCalls,       \* the chrome API calls and timers sendToContent started, in order
    faults,         \* what went wrong in the browser or the page during the call
    sendEnd         \* how the promise of sendToContent settled

messengerVars == <<sendPc, sendPayload, openTabs, tab, apiCalls, faults, sendEnd>>

\* The executor's handlers run one after the other on one page
VARIABLES
    request,        \* the message whose handler ran, Undef before
    document,       \* the document it ran against
    page,           \* the page's state: the values of its fields, submissions and clicks
    results         \* how the runs of the handler settled, in order

executorVars == <<request, document, page, results>>

\* Two calls of processIntent in flight at once; they share grokClient
VARIABLES
    calls           \* per call: [pc, text, userText, handle, upstream, env, outcome]

concurrentVars == <<calls>>

\* The router: the onMessage listener of search.js
VARIABLES
    routerMsg,      \* the message delivered to the router's listener, Undef when none is
    routerPc,       \* the listener: "idle", "threw" (it threw before its async body), "awaiting", "replied"
    routerSettling, \* how the awaited handler will settle
    routerReplies   \* the arguments of the calls of sendResponse for routerMsg

routerVars == <<routerMsg, routerPc, routerSettling, routerReplies>>

\* content scripts injected into tabs and the requests delivered to them
VARIABLES
    listeners,      \* per tab: onMessage listeners registered in its page
    deliveries      \* per request sent: tab, type, handler runs, replies taken

injectionVars == <<listeners, deliveries>>

\* The VoiceEngine of part_008 and the browser's SpeechRecognition object
VARIABLES
    supported,          \* window.SpeechRecognition or window.webkitSpeechRecognition exists
    isInitialized,      \* let isInitialized
    isListening,        \* let isListening
    shouldAutoRestart,  \* let shouldAutoRestart
    restartTimeout,     \* let restartTimeout: "null", or the id of a timer that is "pending" or has "fired"
    recognition,        \* let recognition: "null", or the session of the object: "inactive", "started", "active", "stopping", "failing"
    lastOp,             \* the call or event handled last
    invoked,            \* the last step invoked recognition.start()
    scheduled,          \* the last step called setTimeout for a restart
    stopped,            \* stop() has returned true and start() was not called since
    fatal,              \* an error event of a fatal type was handled and start() was not called since
    reconfigured        \* configure() found the engine listening and no control method was called since

voiceVars == <<supported, isInitialized, isListening, shouldAutoRestart, restartTimeout, recognition, lastOp, invoked, scheduled, stopped, fatal, reconfigured>>

vars == <<intentVars, dispatcherVars, contentVars, messengerVars,
         executorVars, concurrentVars, routerVars, injectionVars,
         voiceVars>>

\* a step of the intent service leaves the browser extension alone
IntentServiceOnly == UNCHANGED <<dispatcherVars, contentVars, messengerVars, executorVars, concurrentVars, routerVars, injectionVars, voiceVars>>

\* a step of the dispatcher leaves the service and the content script alone
DispatcherOnly == UNCHANGED <<intentVars, contentVars, messengerVars, executorVars, concurrentVars, routerVars, injectionVars, voiceVars>>

\* a step of the content script leaves the service and the dispatcher alone
ContentOnly == UNCHANGED <<intentVars, dispatcherVars, messengerVars, executorVars, concurrentVars, routerVars, injectionVars, voiceVars>>

\* a step of the messenger leaves the rest alone
MessengerOnly == UNCHANGED <<intentVars, dispatcherVars, contentVars, executorVars, concurrentVars, routerVars, injectionVars, voiceVars>>

\* a run of a handler on the page leaves the rest alone
ExecutorOnly == UNCHANGED <<intentVars, dispatcherVars, contentVars, messengerVars, concurrentVars, routerVars, injectionVars, voiceVars>>

\* a step of one of two concurrent calls only reads the shared handle
ConcurrentOnly == UNCHANGED <<intentVars, dispatcherVars, contentVars, messengerVars, executorVars, routerVars, injectionVars, voiceVars>>

\* a step of the router's listener leaves the rest alone
RouterOnly == UNCHANGED <<intentVars, dispatcherVars, contentVars, messengerVars, executorVars, concurrentVars, injectionVars, voiceVars>>

\* a step of script injection and delivery leaves everything else alone
InjectionOnly == UNCHANGED <<intentVars, dispatcherVars, contentVars, messengerVars, executorVars, concurrentVars, routerVars, voiceVars>>

\* a step of the voice engine leaves everything else alone
VoiceOnly == UNCHANGED <<intentVars, dispatcherVars, contentVars, messengerVars, executorVars, concurrentVars, routerVars, injectionVars>>

\* no document
NoDom ==
    [searchBox |-> FALSE, searchForm |-> FALSE, inputs |-> {}, idOnly |-> {}, body |-> Null, submit |-> FALSE]

\* no tabs
NoTabs == [active |-> << >>, all |-> << >>]

\* a page nothing was done to
FreshPage == [values |-> << >>, events |-> 0, submissions |-> 0, clicks |-> 0]

\* initializeGrokClient() when n handles exist: the value it returns (0: null)
InitializeGrokClient(apiKey, ctorThrows, n) ==
    IF apiKey = "" THEN 0 ELSE IF ctorThrows THEN 0 ELSE n + 1

\* the module is loaded: grokClient is null, then initializeGrokClient() runs
Init ==
    /\ build \in {"service", "app"}
    /\ \E apiKey \in {"", "xai-key"} : grokClient = InitializeGrokClient(apiKey, FALSE, 0)
    /\ handles = grokClient
    /\ pc = "idle"
    /\ text = Undef
    /\ userText = Undef
    /\ env = NoEnv
    /\ handle = 0
    /\ upstream = NoUpstream
    /\ modelCalls = 0
    /\ fallbackCalls = 0
    /\ fallbackArg = Undef
    /\ fallbackValue = Undef
    /\ grok = Pending
    /\ outcome = Pending
    /\ dispatchInput = Undef
    /\ actionResult = Undef
    /\ dispatchEnd = Pending
    /\ chromeCalls = <<>>
    /\ msg = Undef
    /\ dom = NoDom
    /\ contentPc = "idle"
    /\ timers = 0
    /\ settling = Pending
    /\ responses = <<>>
    /\ effects = <<>>
    /\ sendPc = "idle"
    /\ sendPayload = Undef
    /\ openTabs = NoTabs
    /\ tab = Undef
    /\ apiCalls = <<>>
    /\ faults = {}
    /\ sendEnd = Pending
    /\ request = Undef
    /\ document = NoDom
    /\ page = FreshPage
    /\ results = <<>>
    /\ calls = [i \in {1, 2} |-> [pc |-> "idle", text |-> Undef, userText |-> Undef, handle |-> 0,
                                   upstream |-> NoUpstream, env |-> NoEnv, outcome |-> Pending]]
    /\ routerMsg = Undef
    /\ routerPc = "idle"
    /\ routerSettling = Pending
    /\ routerReplies = <<>>
    /\ listeners = [id \in InjectedTabs |-> 0]
    /\ deliveries = <<>>
    /\ supported \in BOOLEAN
    /\ isInitialized = FALSE
    /\ isListening = FALSE
    /\ shouldAutoRestart = TRUE
    /\ restartTimeout = "null"
    /\ recognition = "null"
    /\ lastOp = "none"
    /\ invoked = FALSE
    /\ scheduled = FALSE
    /\ stopped = FALSE
    /\ fatal = FALSE
    /\ reconfigured = FALSE

\* ------------------------------------------------------------------------
\* Actions
\* ------------------------------------------------------------------------
\* processIntent(t) where the validation throws
ProcessIntentRejects(t) ==
    /\ pc = "idle"
    /\ ValidateText(t).kind = "thrown"
    /\ pc' = "done"
    /\ text' = t
    /\ outcome' = ProcessIntentFinish(build, ValidateText(t))
    /\ UNCHANGED <<build, grokClient, handles, userText, env, handle, upstream,
                   modelCalls, fallbackCalls, fallbackArg, fallbackValue, grok>>
    /\ IntentServiceOnly

\* processIntent(t) where callGrok finds no client and returns the rule
\* engine's value without suspending
ProcessIntentWithoutClient(t, e) ==
    /\ pc = "idle"
    /\ ValidateText(t).kind = "returned"
    /\ grokClient = 0
    /\ \E r \in {CallGrokWithoutClient(fallbackIntentRecognition(ValidateText(t).value.s, e))} :
       /\ pc' = "done"
       /\ text' = t
       /\ userText' = ValidateText(t).value
       /\ grok' = r.end
       /\ IF r.ranFallback
          THEN /\ env' = e
               /\ fallbackCalls' = fallbackCalls + 1
               /\ fallbackArg' = userText'
               /\ fallbackValue' = r.end.value
          ELSE UNCHANGED <<env, fallbackCalls, fallbackArg, fallbackValue>>
       /\ outcome' = ProcessIntentFinish(build, grok')
       /\ UNCHANGED <<build, grokClient, handles, handle, upstream, modelCalls>>
    /\ IntentServiceOnly

\* processIntent(t) up to the await of grokClient.responses.create
ProcessIntentCallsModel(t) ==
    /\ pc = "idle"
    /\ ValidateText(t).kind = "returned"
    /\ grokClient # 0
    /\ pc' = "awaiting"
    /\ text' = t
    /\ userText' = ValidateText(t).value
    /\ handle' = grokClient
    /\ modelCalls' = modelCalls + 1
    /\ UNCHANGED <<build, grokClient, handles, env, upstream, fallbackCalls,
                   fallbackArg, fallbackValue, grok, outcome>>
    /\ IntentServiceOnly

\* a bug the claims must notice: a rejected model call is issued again
ModelCallRetried(up, e) ==
    /\ pc = "awaiting"
    /\ IF up.kind = "error"
       THEN /\ modelCalls' = modelCalls + 1
            /\ upstream' = up
            /\ UNCHANGED <<pc, env, fallbackCalls, fallbackArg, fallbackValue, grok, outcome>>
       ELSE /\ pc' = "done"
            /\ upstream' = up
            /\ grok' = CallGrokResume(up, fallbackIntentRecognition(userText.s, e)).end
            /\ outcome' = ProcessIntentFinish(build, grok')
            /\ UNCHANGED <<env, fallbackCalls, fallbackArg, fallbackValue, modelCalls>>
    /\ UNCHANGED <<build, grokClient, handles, text, userText, handle>>
    /\ IntentServiceOnly

\* a bug the claims must notice: the resumed call reads the shared handle again
\* and takes the path of a call without client when the handle is gone
ModelCallRereadsHandle(up, e) ==
    /\ pc = "awaiting"
    /\ \E r \in {IF grokClient = 0
                  THEN CallGrokWithoutClient(fallbackIntentRecognition(userText.s, e))
                  ELSE CallGrokResume(up, fallbackIntentRecognition(userText.s, e))} :
       /\ pc' = "done"
       /\ upstream' = up
       /\ handle' = grokClient
       /\ grok' = r.end
       /\ IF r.ranFallback
          THEN /\ env' = e
               /\ fallbackCalls' = fallbackCalls + 1
               /\ fallbackArg' = userText
               /\ fallbackValue' = r.end.value
          ELSE UNCHANGED <<env, fallbackCalls, fallbackArg, fallbackValue>>
       /\ outcome' = ProcessIntentFinish(build, grok')
       /\ UNCHANGED <<build, grokClient, handles, text, userText, modelCalls>>
    /\ IntentServiceOnly

\* the model call settles as `up`; callGrok and then processIntent run to
\* their end, the rule engine, if it runs, in environment e
ModelCallSettles(up, e) ==
    /\ pc = "awaiting"
    /\ \E r \in {CallGrokResume(up, fallbackIntentRecognition(userText.s, e))} :
       /\ pc' = "done"
       /\ upstream' = up
       /\ grok' = r.end
       /\ IF r.ranFallback
          THEN /\ env' = e
               /\ fallbackCalls' = fallbackCalls + 1
               /\ fallbackArg' = userText
               /\ fallbackValue' = r.end.value
          ELSE UNCHANGED <<env, fallbackCalls, fallbackArg, fallbackValue>>
       /\ outcome' = ProcessIntentFinish(build, grok')
       /\ UNCHANGED <<build, grokClient, handles, text, userText, handle, modelCalls>>
    /\ IntentServiceOnly

\* the caller has the result or the error of processIntent; the next command
\* starts a new execution
ProcessIntentSettled ==
    /\ pc = "done"
    /\ pc' = "idle"
    /\ text' = Undef
    /\ userText' = Undef
    /\ env' = NoEnv
    /\ handle' = 0
    /\ upstream' = NoUpstream
    /\ modelCalls' = 0
    /\ fallbackCalls' = 0
    /\ fallbackArg' = Undef
    /\ fallbackValue' = Undef
    /\ grok' = Pending
    /\ outcome' = Pending
    /\ UNCHANGED <<build, grokClient, handles>>
    /\ IntentServiceOnly

\* reinitializeGrokClient() with config.llm.apiKey as it is now
ReinitializeGrokClient(apiKey, ctorThrows) ==
    /\ handles < MaxHandles
    /\ grokClient' = InitializeGrokClient(apiKey, ctorThrows, handles)
    /\ handles' = IF grokClient' = 0 THEN handles ELSE handles + 1
    /\ UNCHANGED <<build, pc, text, userText, env, handle, upstream, modelCalls,
                   fallbackCalls, fallbackArg, fallbackValue, grok, outcome>>
    /\ IntentServiceOnly

Next ==
    \/ \E t \in Commands : ProcessIntentRejects(t)
    \/ \E t \in Commands, e \in RunEnvs : ProcessIntentWithoutClient(t, e)
    \/ \E t \in Commands : ProcessIntentCallsModel(t)
    \/ \E up \in Upstreams, e \in RunEnvs : ModelCallSettles(up, e)
    \/ ProcessIntentSettled
    \/ \E apiKey \in {"", "xai-key"}, ctorThrows \in BOOLEAN : ReinitializeGrokClient(apiKey, ctorThrows)

Spec == Init /\ [][Next]_vars

\* ------------------------------------------------------------------------
\* The rule engine called on its own
\* ------------------------------------------------------------------------
Words ==
    { "hello", "Hi", "this", "goodbye", "\tbye ", "thanks", "help", "time", "today",
      "weather", "find", "google", "open", "visit youtube", "remind me", "plus",
      "joke", "FUNNY", "42", "something funny", "9:30 pm" }

\* one word, or two words with a blank between them
FallbackTexts == Words \cup {a \o " " \o b : a \in Words, b \in Words}

\* fallbackIntentRecognition(t) called once, in environment e
FallbackRecognises(t, e) ==
    /\ fallbackCalls = 0
    /\ fallbackCalls' = 1
    /\ fallbackArg' = Str(t)
    /\ env' = e
    /\ fallbackValue' = fallbackIntentRecognition(t, e)
    /\ UNCHANGED <<build, grokClient, handles, pc, text, userText, handle, upstream,
                   modelCalls, grok, outcome>>
    /\ IntentServiceOnly

NextFallback == \E t \in FallbackTexts, e \in RunEnvs : FallbackRecognises(t, e)

SpecFallback == Init /\ [][NextFallback]_vars

\* ------------------------------------------------------------------------
\* Properties
\* ------------------------------------------------------------------------
\* the closed set of intents of an IntentResult
ClosedIntents ==
    {"search", "qna", "summarize", "form_fill", "book_ticket", "website_search",
     "navigation", "other", "unknown"}

\* v is a reply of the shape {success, data:{intent, entities, message, confidence, metadata}, message}
IsSchemaShaped(v) ==
    /\ v.t = "object"
    /\ {"success", "data", "message"} \subseteq DOMAIN v.f
    /\ v.f.data.t = "object"
    /\ {"intent", "entities", "message", "confidence", "metadata"} \subseteq DOMAIN v.f.data.f

\* processIntent returned an object that carries the four fields of src
Carries(src) ==
    /\ outcome.kind = "returned"
    /\ \A k \in {"intent", "entities", "message", "confidence"} : outcome.value.f[k] = src[k]

\* C1: whenever callGrok returns a model reply of the schema's shape, or a
\* value of the rule engine, the result of processIntent carries that source's
\* intent, entities, message and confidence.
C1_SourcePreserved ==
    (pc = "done" /\ grok.kind = "returned")
        => /\ (fallbackCalls = 0 /\ IsSchemaShaped(grok.value)) => Carries(grok.value.f.data.f)
           /\ (fallbackCalls > 0) => Carries(grok.value.f)

\* the five fields of the returned IntentResult are populated
Populated(r) ==
    /\ r.t = "object"
    /\ \A k \in {"intent", "message", "confidence", "model"} : k \in DOMAIN r.f /\ Truthy(r.f[k])
    /\ "entities" \in DOMAIN r.f /\ r.f.entities.t = "object"

\* C2: processIntent ends either with a populated IntentResult or with an
\* error of status 400, 502 or 429; no other error leaves it.
C2_OnlyHardErrorsCross ==
    pc = "done"
        => \/ outcome.kind = "returned" /\ Populated(outcome.value)
           \/ outcome.kind = "thrown" /\ outcome.error.statusCode \in {400, 502, 429}

\* C3: a valid text processed while grokClient is null runs the rule engine
\* and the result returned has model 'fallback-rule-based'.
C3_NoClientFallbackMarker ==
    (pc = "done" /\ userText # Undef /\ modelCalls = 0)
        => /\ fallbackCalls = 1
           /\ outcome.kind = "returned"
           /\ outcome.value.f.model = Str(FallbackModel)

\* C4: a model call that fails with status 401 makes callGrok throw a 502
\* error without running the rule engine, and processIntent throws that error.
C4_AuthFailureSurfaces ==
    (pc = "done" /\ upstream.kind = "error" /\ upstream.status = Num(401))
        => /\ grok.kind = "thrown"
           /\ grok.error.name = "ApiError"
           /\ grok.error.statusCode = 502
           /\ fallbackCalls = 0
           /\ outcome = grok

C4_Witness ==
    /\ pc = "done"
    /\ upstream.kind = "error" /\ upstream.status = Num(401)
    /\ outcome.kind = "thrown" /\ outcome.error.statusCode = 502

\* C5: a model call that fails with status 429 makes callGrok throw a 429
\* error; no further model call is made and the rule engine does not run.
C5_RateLimitSurfaces ==
    (pc = "done" /\ upstream.kind = "error" /\ upstream.status = Num(429))
        => /\ grok.kind = "thrown"
           /\ grok.error.statusCode = 429
           /\ modelCalls = 1
           /\ fallbackCalls = 0

C5_Witness ==
    /\ pc = "done"
    /\ upstream.kind = "error" /\ upstream.status = Num(429)
    /\ grok.kind = "thrown" /\ grok.error.statusCode = 429

\* the model call failed with a status other than 401 and 429 or with none, or
\* its reply text parses neither as it is nor as its span from the first "{"
\* to the last "}"
Degrading(up) ==
    \/ up.kind = "error" /\ up.status # Num(401) /\ up.status # Num(429)
    \/ /\ up.kind = "reply"
       /\ ~JSONParse(up.content, up.members).ok
       /\ \/ ~BraceSpan(up.content).found
          \/ ~JSONParse(BraceSpan(up.content).text, up.members).ok

\* C6: in those cases callGrok throws nothing and returns the value of
\* fallbackIntentRecognition on the text it was given.
C6_DegradesToFallback ==
    (pc = "done" /\ Degrading(upstream))
        => /\ grok.kind = "returned"
           /\ fallbackCalls = 1
           /\ fallbackArg = userText
           /\ grok.value = fallbackIntentRecognition(userText.s, env)

C6_Witness ==
    /\ pc = "done"
    /\ upstream.kind = "reply" /\ upstream.content = <<"{", "prose">>
    /\ grok.kind = "returned" /\ grok.value.f.model = Str(FallbackModel)

\* C7: one execution of processIntent issues the model call at most once and
\* runs the rule engine at most once, also after a failed model call.
C7_AtMostOnce ==
    /\ modelCalls <= 1
    /\ fallbackCalls <= 1
    /\ (pc = "done" /\ upstream.kind # "none") => modelCalls = 1

C7_Witness ==
    /\ pc = "done"
    /\ upstream.kind = "error" /\ upstream.status = Num(500)
    /\ modelCalls = 1 /\ fallbackCalls = 1

\* the text is no string, or its trimmed length is 0 or above the maximum
InvalidText(t) ==
    \/ t.t # "string"
    \/ Len(Trim(t.s)) = 0
    \/ Len(Trim(t.s)) > MaxTextLength

\* C8: an invalid text ends processIntent with a 400 error before any model
\* call or rule engine run; any other text is accepted and callGrok receives
\* it trimmed.
C8_Validation ==
    pc # "idle"
        => IF InvalidText(text)
           THEN /\ pc = "done"
                /\ outcome.kind = "thrown" /\ outcome.error.statusCode = 400
                /\ modelCalls = 0 /\ fallbackCalls = 0 /\ userText = Undef
           ELSE /\ userText = Str(Trim(text.s))
                /\ modelCalls + fallbackCalls >= 1
                /\ outcome.kind = "thrown" => outcome.error.statusCode # 400

C8_Witness ==
    /\ pc = "done"
    /\ text = Str(" " \o Repeat("z", MaxTextLength) \o " ")
    /\ userText = Str(Repeat("z", MaxTextLength))
    /\ outcome.kind = "returned"

\* C9: every IntentResult processIntent returns has its intent in the closed set.
C9_IntentInClosedSet ==
    (pc = "done" /\ outcome.kind = "returned")
        => outcome.value.f.intent \in {Str(i) : i \in ClosedIntents}

\* C10: the rule engine returns the intent of the first pattern, in
\* declaration order, one of whose keywords occurs in the lowercased, trimmed
\* text; no later pattern wins over it.
C10_FirstPatternWins ==
    fallbackCalls > 0
        => LET lowerText == Trim(ToLowerCase(fallbackArg.s))
               Has(p) == \E k \in 1..Len(patterns[p].keywords) : Includes(lowerText, patterns[p].keywords[k])
           IN \A p \in 1..Len(patterns) :
                 (Has(p) /\ \A q \in 1..(p - 1) : ~Has(q))
                    => fallbackValue.f.intent = Str(patterns[p].intent)

C10_Witness ==
    /\ fallbackCalls > 0
    /\ fallbackArg = Str("joke today")
    /\ fallbackValue.f.intent = Str("date")

\* ------------------------------------------------------------------------
\* The rule engine: keywords, the unknown result, entity collisions
\* ------------------------------------------------------------------------
\* the patterns one of whose keywords occurs in the lowercased, trimmed text
PatternsIn(t) ==
    {p \in 1..Len(patterns) :
        \E k \in 1..Len(patterns[p].keywords) :
            Includes(Trim(ToLowerCase(t)), patterns[p].keywords[k])}

\* C11: whenever a keyword of a pattern occurs in the input, the rule engine
\* returns that pattern's declared intent and that pattern's declared
\* confidence.
C11_KeywordOwnerIntent ==
    fallbackCalls > 0
        => \A p \in PatternsIn(fallbackArg.s) :
              /\ fallbackValue.f.intent = Str(patterns[p].intent)
              /\ fallbackValue.f.confidence = Num(patterns[p].confidence)

\* C12: when no keyword of any pattern occurs in the input, the rule engine
\* returns intent 'unknown', confidence 0.30, model 'fallback-rule-based' and
\* the entities of extractEntities(text).
C12_UnknownResult ==
    (fallbackCalls > 0 /\ PatternsIn(fallbackArg.s) = {})
        => /\ fallbackValue.f.intent = Str("unknown")
           /\ fallbackValue.f.confidence = Num(30)
           /\ fallbackValue.f.confidence.n \in 0..100
           /\ fallbackValue.f.model = Str("fallback-rule-based")
           /\ fallbackValue.f.entities = Obj(extractEntities(fallbackArg.s))

\* an input without keyword whose extractor output is not empty
C12_Witness ==
    /\ fallbackCalls > 0
    /\ PatternsIn(fallbackArg.s) = {}
    /\ fallbackValue.f.intent = Str("unknown")
    /\ "time" \in DOMAIN fallbackValue.f.entities.f
    /\ "numbers" \in DOMAIN fallbackValue.f.entities.f

\* the entities of the matched pattern and of its handler, before the
\* extractor's are merged in
PatternEntities(t, e) ==
    LET p == Min(PatternsIn(t))
    IN Spread(OrElse(patterns[p].entities, EmptyObj).f, HandlerResult(t, e, p).entities)

\* C13: on a key that both the pattern or its handler and the extractor
\* produce, the result keeps the value of the pattern or handler.
C13_PatternEntitiesWin ==
    (fallbackCalls > 0 /\ PatternsIn(fallbackArg.s) # {})
        => \A key \in DOMAIN PatternEntities(fallbackArg.s, env) \cap DOMAIN extractEntities(fallbackArg.s) :
              fallbackValue.f.entities.f[key] = PatternEntities(fallbackArg.s, env)[key]

\* ------------------------------------------------------------------------
\* The shared handle
\* ------------------------------------------------------------------------
\* C14: a call that starts reads the handle once: it is issued on the handle
\* of that moment, or takes the rule engine when the handle is null. While the
\* call is suspended, reinitializeGrokClient() changes neither the handle the
\* call was issued on nor anything else of the call, and when the call settles
\* its outcome is the one its settlement and its text determine, whatever the
\* shared handle is by then.
C14_InFlightKeepsHandle ==
    [][ /\ (pc = "idle" /\ pc' = "awaiting") => (grokClient # 0 /\ handle' = grokClient)
        /\ (pc = "idle" /\ pc' = "done" /\ userText' # Undef)
              => (grokClient = 0 /\ handle' = 0 /\ modelCalls' = 0 /\ fallbackCalls' = 1)
        /\ pc = "awaiting" => (handle' = handle /\ modelCalls' = modelCalls /\ userText' = userText)
        /\ (pc = "awaiting" /\ pc' = "awaiting") => UNCHANGED <<upstream, grok, outcome, fallbackCalls>>
        /\ (pc = "awaiting" /\ pc' = "done")
              => outcome' \in {ProcessIntentFinish(build,
                                   CallGrokResume(upstream', fallbackIntentRecognition(userText.s, e)).end) :
                               e \in RunEnvs}
      ]_vars

\* a call issued on the first handle has settled with the model's reply after
\* the shared handle was set to null
C14_Witness ==
    /\ pc = "done"
    /\ modelCalls = 1
    /\ handle = 1
    /\ grokClient = 0
    /\ upstream.kind = "reply"
    /\ fallbackCalls = 0
    /\ outcome.kind = "returned"

\* ------------------------------------------------------------------------
\* The dispatcher: class IntentHandler
\* ------------------------------------------------------------------------
\* new Error(message) and the TypeError the engine throws
Error(message) == [name |-> "Error", statusCode |-> 0, message |-> message]

TypeError(message) == [name |-> "TypeError", statusCode |-> 0, message |-> message]

\* `${v}` in a template literal, and the string a += makes of v
TemplateText(v) ==
    CASE v.t = "string" -> v.s
      [] v.t = "undefined" -> "undefined"
      [] v.t = "null" -> "null"
      [] v.t = "number" -> ToString(v.n)
      [] v.t = "boolean" -> (IF v.b THEN "true" ELSE "false")
      [] OTHER -> "[object Object]"

\* keywords.join(' ') on an array of strings
RECURSIVE Join(_)
Join(a) ==
    IF Len(a) = 0 THEN ""
    ELSE IF Len(a) = 1 THEN a[1]
    ELSE a[1] \o " " \o Join(Tail(a))

\* keywords?.length as a condition
HasLength(keywords) ==
    \/ keywords.t = "array" /\ Len(keywords.a) > 0
    \/ keywords.t = "string" /\ keywords.s # ""

\* a bug the claims must notice: the site: prefix is written whenever the
\* website entity is present, empty or not
handleSearchAnyWebsite(entities) ==
    IF PropThrows(entities) THEN Thrown(TypeError("Cannot destructure property 'query'"))
    ELSE IF HasLength(OptProp(entities, "keywords")) /\ OptProp(entities, "keywords").t # "array"
    THEN Thrown(TypeError("keywords.join is not a function"))
    ELSE LET query == OptProp(entities, "query")
             keywords == OptProp(entities, "keywords")
             website == OptProp(entities, "website")
             withKeywords == IF HasLength(keywords)
                             THEN Str(TemplateText(query) \o " " \o Join(keywords.a))
                             ELSE query
             finalQuery == IF website # Undef
                           THEN Str("site:" \o TemplateText(website) \o " " \o TemplateText(withKeywords))
                           ELSE withKeywords
         IN Returned(Obj([action |-> Str("CHROME_SEARCH"), text |-> finalQuery]))

\* handleSearch(entities): how it ends
handleSearch(entities) ==
    IF PropThrows(entities) THEN Thrown(TypeError("Cannot destructure property 'query'"))
    ELSE IF HasLength(OptProp(entities, "keywords")) /\ OptProp(entities, "keywords").t # "array"
    THEN Thrown(TypeError("keywords.join is not a function"))
    ELSE LET query == OptProp(entities, "query")
             keywords == OptProp(entities, "keywords")
             website == OptProp(entities, "website")
             withKeywords == IF HasLength(keywords)
                             THEN Str(TemplateText(query) \o " " \o Join(keywords.a))
                             ELSE query
             finalQuery == IF Truthy(website)
                           THEN Str("site:" \o TemplateText(website) \o " " \o TemplateText(withKeywords))
                           ELSE withKeywords
         IN Returned(Obj([action |-> Str("CHROME_SEARCH"), text |-> finalQuery]))

\* handleOpenSite(entities): how it ends
handleOpenSite(entities) ==
    IF PropThrows(entities) THEN Thrown(TypeError("Cannot read properties of undefined (reading 'website')"))
    ELSE IF OptProp(entities, "website").t # "string"
    THEN Thrown(TypeError("Cannot read properties of undefined (reading 'startsWith')"))
    ELSE IF HasAt(OptProp(entities, "website").s, "http", 1)
    THEN Returned(Obj([action |-> Str("OPEN_URL"), url |-> OptProp(entities, "website")]))
    ELSE Returned(Obj([action |-> Str("OPEN_URL"),
                       url |-> Str("https://" \o OptProp(entities, "website").s)]))

\* handleDefault(intent), called like every handler with the entities
handleDefault(intent) == Returned(Obj([action |-> Str("NONE")]))

\* this.handlers[intent] || this.handleDefault. The literal has no
\* handleSummarize to store, so its summarize entry is undefined; a key the
\* literal lacks is looked up on Object.prototype, which answers two
\* lowercase names: constructor (the function Object) and __proto__ (an
\* object, not callable).
SelectHandler(intent) ==
    CASE intent \in {"search", "website_search"} -> "handleSearch"
      [] intent = "open_site" -> "handleOpenSite"
      [] intent = "summarize" -> "handleDefault"
      [] intent = "constructor" -> "Object"
      [] intent = "__proto__" -> "Object.prototype"
      [] OTHER -> "handleDefault"

\* handler(data.entities, data.metadata)
CallHandler(name, entities) ==
    CASE name = "handleSearch" -> handleSearch(entities)
      [] name = "handleOpenSite" -> handleOpenSite(entities)
      [] name = "handleDefault" -> handleDefault(entities)
      [] name = "Object" -> Returned(IF PropThrows(entities) THEN EmptyObj ELSE entities)
      [] OTHER -> Thrown(TypeError("handler is not a function"))

\* execute(result): the chrome API calls it makes
execute(result) ==
    IF OptProp(result, "action") = Str("CHROME_SEARCH")
    THEN << [api |-> "chrome.search.query",
             arg |-> Obj([text |-> OptProp(result, "text"), disposition |-> Str("NEW_TAB")])] >>
    ELSE IF OptProp(result, "action") = Str("OPEN_URL")
    THEN << [api |-> "chrome.tabs.create", arg |-> Obj([url |-> OptProp(result, "url")])] >>
    ELSE << >>

\* process(input) from the handler's return on: `result` and execute(result)
ProcessHandled(handled) ==
    IF handled.kind = "thrown"
    THEN [end |-> handled, result |-> Undef, calls |-> << >>]
    ELSE [end |-> Returned(Undef), result |-> handled.value, calls |-> execute(handled.value)]

\* process(input): how it ends, the handler's result and the chrome calls
process(input) ==
    IF ~Truthy(OptProp(input, "success")) \/ ~Truthy(OptProp(input, "data"))
    THEN [end |-> Thrown(Error("Invalid input format")), result |-> Undef, calls |-> << >>]
    ELSE IF OptProp(OptProp(input, "data"), "intent").t # "string"
    THEN [end |-> Thrown(TypeError("data.intent.toLowerCase is not a function")),
          result |-> Undef, calls |-> << >>]
    ELSE CHOOSE r \in {ProcessHandled(handled) :
                          handled \in {CallHandler(SelectHandler(ToLowerCase(input.f.data.f.intent.s)),
                                                    OptProp(input.f.data, "entities"))}} : TRUE

\* the body of the HTTP response of the controller, which is the shape
\* process() reads: { success, data: { intent, entities } }
DispatchInput(intent, entities) ==
    Obj([success |-> Bool(TRUE), data |-> Obj([intent |-> Str(intent), entities |-> Obj(entities)])])

\* an entities object with the keys whose value is not undefined
EntitiesOf(query, keywords, website, url) ==
    LET all == [query |-> query, keywords |-> keywords, website |-> website, url |-> url]
    IN [k \in {x \in DOMAIN all : all[x] # Undef} |-> all[k]]

SearchEntities ==
    {EntitiesOf(q, k, w, u) :
        q \in {Undef, Str(""), Str("cats")},
        k \in {Undef, Arr(<< >>), Arr(<<"4k">>), Arr(<<"2026", "4k">>)},
        w \in {Undef, Str(""), Str("youtube"), Str("youtube.com"), Str("https://www.irctc.co.in")},
        u \in {Undef, Str(""), Str("https://www.youtube.com")}}

OtherEntities ==
    { [form_fields |-> Obj([name |-> Str("Ann")])],
      [from |-> Str("Delhi"), to |-> Str("Pune"), date |-> Str("2026-11-03")],
      [website |-> Str("youtube"), action |-> Str("open")],
      [query |-> Str("cats"), keywords |-> Str("4k")] }

\* the intents of the schema, of the rule engine, and strings of neither
DispatchIntents ==
    { "search", "qna", "summarize", "form_fill", "book_ticket", "website_search",
      "navigation", "other", "unknown",
      "open_site", "open_website", "SEARCH", "play_music", "constructor", "__proto__" }

\* the inputs process() is called with: well-formed ones and broken ones
DispatchInputs ==
    {DispatchInput(i, e) : i \in DispatchIntents, e \in SearchEntities \cup OtherEntities}
    \cup { Obj([success |-> Bool(FALSE), data |-> Null]),
           Obj([success |-> Bool(TRUE), data |-> Null]),
           Obj([success |-> Bool(TRUE), data |-> Obj([entities |-> EmptyObj])]),
           Obj([success |-> Bool(TRUE), data |-> Obj([intent |-> Num(5), entities |-> EmptyObj])]),
           Obj([success |-> Bool(TRUE), data |-> Obj([intent |-> Str("search")])]),
           Obj([success |-> Bool(TRUE), data |-> Obj([intent |-> Str("open_site")])]),
           Obj([success |-> Bool(TRUE), data |-> Obj([intent |-> Str("constructor")])]),
           Obj([intent |-> Str("search"), entities |-> Obj([query |-> Str("cats")])]) }

\* a new IntentHandler is constructed and its process(input) runs to its end
Dispatch(input) ==
    /\ dispatchEnd.kind = "none"
    /\ \E r \in {process(input)} :
          /\ dispatchInput' = input
          /\ actionResult' = r.result
          /\ dispatchEnd' = r.end
          /\ chromeCalls' = r.calls
    /\ DispatcherOnly

NextDispatch == \E input \in DispatchInputs : Dispatch(input)

SpecDispatch == Init /\ [][NextDispatch]_vars

\* ------------------------------------------------------------------------
\* The dispatcher: properties
\* ------------------------------------------------------------------------
ActionEnumeration ==
    {"SEARCH", "NAVIGATE", "WEBSITE_SEARCH", "FORM_FILL", "BOOK_TICKET", "SUMMARIZE", "NONE"}

\* process() was called with { success: true, data: { intent: <string>, entities: <object> } }
WellFormedDispatch ==
    /\ dispatchEnd.kind # "none"
    /\ OptProp(dispatchInput, "success") = Bool(TRUE)
    /\ OptProp(OptProp(dispatchInput, "data"), "intent").t = "string"
    /\ OptProp(OptProp(dispatchInput, "data"), "entities").t = "object"

\* the intent and the entities of a well-formed input
InputIntent == dispatchInput.f.data.f.intent.s

InputEntity(key) == OptProp(dispatchInput.f.data.f.entities, key)

\* the action of the handler's result, "" when it has none
DispatchedAction ==
    IF OptProp(actionResult, "action").t = "string" THEN actionResult.f.action.s ELSE ""

\* C15: for every intent of the closed enumeration and for unrecognized
\* intents, process() ends without throwing with exactly one action, a member
\* of the fixed action enumeration; other, unknown and unrecognized intents
\* get NONE.
C15_OneActionOfEnumeration ==
    WellFormedDispatch
        => /\ dispatchEnd.kind = "returned"
           /\ DispatchedAction \in ActionEnumeration
           /\ InputIntent \notin (ClosedIntents \ {"other", "unknown"}) => DispatchedAction = "NONE"

\* C16: form_fill is dispatched as FORM_FILL with form_fields, book_ticket as
\* BOOK_TICKET with from, to and date, summarize as SUMMARIZE and navigation
\* as NAVIGATE; none of the four as NONE.
C16_FourIntentsDispatched ==
    WellFormedDispatch
        => /\ InputIntent = "form_fill"
                => (DispatchedAction = "FORM_FILL"
                    /\ OptProp(actionResult, "form_fields") = InputEntity("form_fields"))
           /\ InputIntent = "book_ticket"
                => (DispatchedAction = "BOOK_TICKET"
                    /\ \A k \in {"from", "to", "date"} : OptProp(actionResult, k) = InputEntity(k))
           /\ InputIntent = "summarize" => DispatchedAction = "SUMMARIZE"
           /\ InputIntent = "navigation" => DispatchedAction = "NAVIGATE"

\* C17: a navigation request (model intent navigation, rule-engine intent
\* open_website) is dispatched with entities.url when that is not empty, and
\* otherwise with an absolute https URL made from entities.website: for the
\* website 'youtube' the URL https://www.youtube.com.
C17_NavigationUrl ==
    (WellFormedDispatch /\ InputIntent \in {"navigation", "open_website"}
        /\ (Truthy(InputEntity("url")) \/ Truthy(InputEntity("website"))))
        => /\ dispatchEnd.kind = "returned"
           /\ OptProp(actionResult, "url").t = "string"
           /\ Truthy(InputEntity("url")) => actionResult.f.url = InputEntity("url")
           /\ ~Truthy(InputEntity("url")) => HasAt(actionResult.f.url.s, "https://", 1)
           /\ (~Truthy(InputEntity("url")) /\ InputEntity("website") = Str("youtube"))
                 => actionResult.f.url = Str("https://www.youtube.com")

\* the text of a string entity, "" for an absent one
TextOr(v) == IF v.t = "string" THEN v.s ELSE ""

\* the query text the dispatcher is to hand on
ExpectedSearchText ==
    (IF TextOr(InputEntity("website")) # "" THEN "site:" \o TextOr(InputEntity("website")) \o " " ELSE "")
    \o TextOr(InputEntity("query"))
    \o (IF InputEntity("keywords").t = "array" /\ Len(InputEntity("keywords").a) > 0
        THEN " " \o Join(InputEntity("keywords").a) ELSE "")

\* C18: for search and website_search with a query, keywords that are a list
\* of strings or absent, and a website that is a string or absent, the
\* dispatched text is the query, then the keywords joined by single blanks,
\* with 'site:<website> ' in front exactly when the website is not empty.
C18_SearchText ==
    (WellFormedDispatch /\ InputIntent \in {"search", "website_search"}
        /\ InputEntity("query").t = "string"
        /\ InputEntity("keywords").t \in {"array", "undefined"})
        => /\ dispatchEnd.kind = "returned"
           /\ OptProp(actionResult, "text") = Str(ExpectedSearchText)
           /\ HasAt(actionResult.f.text.s, "site:", 1) <=> Truthy(InputEntity("website"))
           /\ (~Truthy(InputEntity("website")) /\ ~HasLength(InputEntity("keywords")))
                 => actionResult.f.text = InputEntity("query")

\* a search with query, two keywords and a website
C18_Witness ==
    /\ WellFormedDispatch
    /\ InputIntent = "website_search"
    /\ InputEntity("keywords") = Arr(<<"2026", "4k">>)
    /\ actionResult.f.text = Str("site:youtube.com cats 2026 4k")
    /\ Len(chromeCalls) = 1

\* C19: for every intent and every entities object, with or without the keys
\* the selected handler reads, process() does not throw, no field of the
\* dispatched result is undefined, and an absent entity stands in the payload
\* as the empty string.
C19_PayloadDefined ==
    (WellFormedDispatch /\ InputEntity("keywords").t \in {"array", "undefined"})
        => /\ dispatchEnd.kind = "returned"
           /\ \A k \in DOMAIN actionResult.f : actionResult.f[k] # Undef
           /\ "text" \in DOMAIN actionResult.f => actionResult.f.text = Str(ExpectedSearchText)

\* ------------------------------------------------------------------------
\* The content script: handlers
\* ------------------------------------------------------------------------
\* A document is [searchBox, searchForm, inputs, idOnly, body, submit]: whether
\* 'input[type="search"], input[name*=search]' selects an element, whether
\* that element has a form, the keys k for which 'input[name*="k"]' selects
\* an element, the keys that no name but the id of an input contains,
\* document.body.innerText (Null without body), and whether
\* 'button[type=submit]' selects an element.
\* A handler's run is [end, timers, effects]: how its promise settles, the
\* wait() timers it passes before, and what it does to the page.
HandlerRun(end, n, did) == [end |-> end, timers |-> n, effects |-> did]

\* encodeURIComponent on the characters the commands hold
EncodeChar(c) ==
    CASE c = " " -> "%20"
      [] c = "&" -> "%26"
      [] c = "?" -> "%3F"
      [] c = "=" -> "%3D"
      [] c = "/" -> "%2F"
      [] c = "+" -> "%2B"
      [] c = ":" -> "%3A"
      [] c = "#" -> "%23"
      [] OTHER -> c

RECURSIVE EncodeFrom(_, _)
EncodeFrom(s, i) == IF i > Len(s) THEN "" ELSE EncodeChar(Char(s, i)) \o EncodeFrom(s, i + 1)

encodeURIComponent(s) == EncodeFrom(s, 1)

\* data.entities.k : the value, or the TypeError of reading through undefined
EntityRead(data, k) ==
    IF PropThrows(data) THEN Thrown(TypeError("Cannot read properties of undefined (reading 'entities')"))
    ELSE IF PropThrows(OptProp(data, "entities"))
    THEN Thrown(TypeError("Cannot read properties of undefined (reading '" \o k \o "')"))
    ELSE Returned(OptProp(OptProp(data, "entities"), k))

googleSearch(data) ==
    IF EntityRead(data, "query").kind = "thrown" THEN HandlerRun(EntityRead(data, "query"), 0, << >>)
    ELSE IF ~Truthy(EntityRead(data, "query").value) THEN HandlerRun(Thrown(Error("No query")), 0, << >>)
    ELSE HandlerRun(Returned(Obj([message |-> Str("Redirecting to Google")])), 0,
                    << [op |-> "setTimeout location.href",
                        arg |-> "https://www.google.com/search?q="
                                \o encodeURIComponent(TemplateText(EntityRead(data, "query").value))] >>)

\* a bug the claims must notice: the search goes on without a search box
websiteSearchUnchecked(data, doc) ==
    IF EntityRead(data, "query").kind = "thrown" THEN HandlerRun(EntityRead(data, "query"), 0, << >>)
    ELSE IF ~Truthy(EntityRead(data, "query").value) THEN HandlerRun(Thrown(Error("No query")), 0, << >>)
    ELSE HandlerRun(Returned(Obj([message |-> Str("Search submitted")])), 1,
                    << [op |-> "input.value", arg |-> TemplateText(EntityRead(data, "query").value)],
                       [op |-> "wait", arg |-> "300"] >>)

websiteSearch(data, doc) ==
    IF EntityRead(data, "query").kind = "thrown" THEN HandlerRun(EntityRead(data, "query"), 0, << >>)
    ELSE IF ~Truthy(EntityRead(data, "query").value) THEN HandlerRun(Thrown(Error("No query")), 0, << >>)
    ELSE IF ~doc.searchBox THEN HandlerRun(Thrown(Error("Search box not found")), 0, << >>)
    ELSE HandlerRun(Returned(Obj([message |-> Str("Search submitted")])), 1,
                    << [op |-> "input.focus", arg |-> ""],
                       [op |-> "input.value", arg |-> TemplateText(EntityRead(data, "query").value)],
                       [op |-> "dispatchEvent input", arg |-> "search"],
                       [op |-> "wait", arg |-> "300"] >>
                    \o (IF doc.searchForm THEN << [op |-> "form.submit", arg |-> ""] >> ELSE << >>))

\* for (const k in fields) enumerates the keys in insertion order; the objects
\* of the model are written in this order
KeyOrder == <<"from", "to", "date", "name", "email">>

\* the keys of fields an input exists for, in that order
FilledKeys(fields, doc) ==
    SelectSeq(KeyOrder, LAMBDA k : k \in DOMAIN fields /\ k \in doc.inputs)

\* the loop of formFill over the keys that have an input: the value is set
\* and an input event dispatched
FillEffects(fields, keys) ==
    [i \in 1..(2 * Len(keys)) |->
        IF i % 2 = 1
        THEN [op |-> "el.value " \o keys[(i + 1) \div 2], arg |-> TemplateText(fields[keys[(i + 1) \div 2]])]
        ELSE [op |-> "dispatchEvent input", arg |-> keys[i \div 2]]]

formFill(data, doc) ==
    IF EntityRead(data, "form_fields").kind = "thrown"
    THEN HandlerRun(EntityRead(data, "form_fields"), 0, << >>)
    ELSE IF ~Truthy(EntityRead(data, "form_fields").value)
    THEN HandlerRun(Thrown(Error("No fields")), 0, << >>)
    ELSE CHOOSE r \in {HandlerRun(Returned(Obj([message |-> Str("Filled " \o ToString(Len(keys)) \o " fields")])),
                                   0, FillEffects(fields, keys)) :
                          keys \in {FilledKeys(fields, doc) : fields \in {data.f.entities.f.form_fields.f}},
                          fields \in {data.f.entities.f.form_fields.f}} : TRUE

\* auto(name, val) for the three fields of a booking: the fields it sets
BookedKeys(entities, doc) ==
    SelectSeq(<<"from", "to", "date">>,
              LAMBDA k : Truthy(OptProp(entities, k)) /\ k \in doc.inputs)

\* a bug the claims must notice: auto does not wait after it set a value
AutoEffectsWithoutDelay(fields, keys) == FillEffects(fields, keys)

\* the calls of auto that find a value and an element: the value is set, an
\* input event dispatched, and wait(200) awaited
AutoEffects(fields, keys) ==
    [i \in 1..(3 * Len(keys)) |->
        CASE i % 3 = 1 -> [op |-> "el.value " \o keys[(i + 2) \div 3],
                           arg |-> TemplateText(fields[keys[(i + 2) \div 3]])]
          [] i % 3 = 2 -> [op |-> "dispatchEvent input", arg |-> keys[(i + 1) \div 3]]
          [] OTHER -> [op |-> "wait", arg |-> "200"]]

bookTicket(data, doc) ==
    IF EntityRead(data, "from").kind = "thrown" THEN HandlerRun(EntityRead(data, "from"), 0, << >>)
    ELSE CHOOSE r \in {HandlerRun(Returned(Obj([message |-> Str("Booking submitted")])),
                                   Len(keys),
                                   AutoEffects(data.f.entities.f, keys)
                                   \o (IF doc.submit THEN << [op |-> "button.click", arg |-> ""] >> ELSE << >>)) :
                          keys \in {BookedKeys(data.f.entities, doc)}} : TRUE

\* s.replace(/\s+/g, ' ') from position i; inRun says the previous character
\* was white space
RECURSIVE CollapseFrom(_, _, _)
CollapseFrom(s, i, inRun) ==
    IF i > Len(s) THEN ""
    ELSE IF Char(s, i) \in Whitespace
    THEN (IF inRun THEN "" ELSE " ") \o CollapseFrom(s, i + 1, TRUE)
    ELSE Char(s, i) \o CollapseFrom(s, i + 1, FALSE)

\* the character budget of a summary
SummaryBudget == 5000

summarize(doc) ==
    IF doc.body = Null
    THEN HandlerRun(Thrown(TypeError("Cannot read properties of null (reading 'innerText')")), 0, << >>)
    ELSE CHOOSE r \in {HandlerRun(Returned(Obj([summary |-> Str(SubSeq(c, 1, Min({Len(c), SummaryBudget})))])),
                                   0, << >>) :
                          c \in {CollapseFrom(doc.body.s, 1, FALSE)}} : TRUE

\* ------------------------------------------------------------------------
\* The content script: the onMessage listener
\* ------------------------------------------------------------------------
\* the cases of switch (msg.type)
ContentCommands == {"SEARCH", "WEBSITE_SEARCH", "FORM_FILL", "BOOK_TICKET", "SUMMARIZE"}

\* whether the async body reaches an await: msg.type can be read and selects
\* a handler. Otherwise the body throws and is caught before the listener
\* returns.
Suspends(m) ==
    /\ ~PropThrows(m)
    /\ OptProp(m, "type").t = "string"
    /\ OptProp(m, "type").s \in ContentCommands

\* the run of the handler that msg.type selects, on document doc
SelectedRun(m, doc) ==
    IF PropThrows(m)
    THEN HandlerRun(Thrown(TypeError("Cannot read properties of undefined (reading 'type')")), 0, << >>)
    ELSE IF ~Suspends(m) THEN HandlerRun(Thrown(Error("Unknown command")), 0, << >>)
    ELSE CASE m.f.type.s = "SEARCH" -> googleSearch(OptProp(m, "payload"))
           [] m.f.type.s = "WEBSITE_SEARCH" -> websiteSearch(OptProp(m, "payload"), doc)
           [] m.f.type.s = "FORM_FILL" -> formFill(OptProp(m, "payload"), doc)
           [] m.f.type.s = "BOOK_TICKET" -> bookTicket(OptProp(m, "payload"), doc)
           [] m.f.type.s = "SUMMARIZE" -> summarize(doc)

\* the argument of sendResponse after the try block, and in the catch block
ResponseOf(end) ==
    IF end.kind = "returned"
    THEN Obj([success |-> Bool(TRUE), data |-> end.value])
    ELSE Obj([success |-> Bool(FALSE), error |-> Str(end.error.message)])

\* the payloads a message may carry
ContentPayloads ==
    { Undef,
      Obj([intent |-> Str("search")]),
      Obj([intent |-> Str("search"), entities |-> EmptyObj]),
      Obj([intent |-> Str("search"), entities |-> Obj([query |-> Str("")])]),
      Obj([intent |-> Str("search"), entities |-> Obj([query |-> Str("cats & dogs")])]),
      Obj([intent |-> Str("form_fill"), entities |-> Obj([form_fields |-> Null])]),
      Obj([intent |-> Str("form_fill"), entities |-> Obj([form_fields |-> EmptyObj])]),
      Obj([intent |-> Str("form_fill"),
           entities |-> Obj([form_fields |-> Obj([name |-> Str("Ann"), email |-> Str("ann@example.com")])])]),
      Obj([intent |-> Str("book_ticket"),
           entities |-> Obj([from |-> Str("Delhi"), to |-> Str(""), date |-> Str("2026-11-03")])]),
      Obj([intent |-> Str("book_ticket"),
           entities |-> Obj([from |-> Str("Delhi"), to |-> Str("Pune"), date |-> Str("2026-11-03")])]) }

\* the messages delivered to the listener
ContentMessages ==
    {Obj([type |-> Str(ty), payload |-> pl]) :
        ty \in ContentCommands \cup {"NAVIGATION", "search"}, pl \in ContentPayloads}
    \cup {Undef, Null, EmptyObj, Str("SEARCH"), Obj([type |-> Num(1)]), Obj([type |-> Str("SUMMARIZE")])}

\* the documents a message may meet
Documents ==
    {doc \in [searchBox : BOOLEAN,
              searchForm : BOOLEAN,
              inputs : {{}, {"from", "date"}, {"from", "to", "date", "name", "email"}},
              idOnly : {{}, {"email"}},
              body : {Null, Str("  Hello \n\t world ")},
              submit : BOOLEAN] :
        /\ doc.searchForm => doc.searchBox
        /\ doc.idOnly \cap doc.inputs = {}}

\* The listener is called with m: the async body runs to its first await, or
\* to its end when it throws before one, and the listener returns true.
ListenerReceives(m, doc) ==
    /\ contentPc = "idle"
    /\ msg' = m
    /\ dom' = doc
    /\ IF Suspends(m)
       THEN /\ \E r \in {SelectedRun(m, doc)} :
                  /\ settling' = r.end
                  /\ timers' = r.timers
            /\ contentPc' = "awaiting"
            /\ UNCHANGED <<responses, effects>>
       ELSE /\ \E r \in {SelectedRun(m, doc)} :
                  /\ settling' = r.end
                  /\ responses' = Append(responses, ResponseOf(r.end))
            /\ contentPc' = "replied"
            /\ UNCHANGED <<timers, effects>>
    /\ ContentOnly

\* a wait() timer of the awaited handler fires
TimerFires ==
    /\ contentPc = "awaiting"
    /\ timers > 0
    /\ timers' = timers - 1
    /\ UNCHANGED <<msg, dom, contentPc, settling, responses, effects>>
    /\ ContentOnly

\* a bug the claims must notice: a handler that throws is answered in the try
\* block and again in the catch block
HandlerSettlesTwice ==
    /\ contentPc = "awaiting"
    /\ timers = 0
    /\ contentPc' = "replied"
    /\ responses' = IF settling.kind = "thrown"
                    THEN responses \o << Obj([success |-> Bool(TRUE), data |-> Undef]), ResponseOf(settling) >>
                    ELSE Append(responses, ResponseOf(settling))
    /\ effects' = SelectedRun(msg, dom).effects
    /\ UNCHANGED <<msg, dom, timers, settling>>
    /\ ContentOnly

\* the awaited handler settles: the body resumes and answers
HandlerSettles ==
    /\ contentPc = "awaiting"
    /\ timers = 0
    /\ contentPc' = "replied"
    /\ responses' = Append(responses, ResponseOf(settling))
    /\ effects' = SelectedRun(msg, dom).effects
    /\ UNCHANGED <<msg, dom, timers, settling>>
    /\ ContentOnly

\* the message is done with; the listener waits for the next one
ListenerDone ==
    /\ contentPc = "replied"
    /\ contentPc' = "idle"
    /\ msg' = Undef
    /\ dom' = NoDom
    /\ timers' = 0
    /\ settling' = Pending
    /\ responses' = << >>
    /\ effects' = << >>
    /\ ContentOnly

NextContent ==
    \/ \E m \in ContentMessages, doc \in Documents : ListenerReceives(m, doc)
    \/ TimerFires
    \/ HandlerSettles
    \/ ListenerDone

\* timers fire and settled promises resume their awaiting bodies
SpecContent ==
    Init /\ [][NextContent]_vars /\ WF_vars(TimerFires) /\ WF_vars(HandlerSettles)

\* C20: for every message, sendResponse is called once and only once: not
\* before the selected handler settles, then with { success: true, data } if
\* the handler returned and with { success: false, error } if it threw; and
\* every message whose handler is awaited is answered in the end.
C20_ExactlyOneReply ==
    /\ [](/\ Len(responses) <= 1
          /\ contentPc = "awaiting" => responses = << >>
          /\ contentPc = "replied"
                => /\ Len(responses) = 1
                   /\ SelectedRun(msg, dom).end.kind = "returned"
                         => responses[1] = Obj([success |-> Bool(TRUE), data |-> SelectedRun(msg, dom).end.value])
                   /\ SelectedRun(msg, dom).end.kind = "thrown"
                         => responses[1] = Obj([success |-> Bool(FALSE),
                                                error |-> Str(SelectedRun(msg, dom).end.error.message)]))
    /\ ((contentPc = "awaiting") ~> (contentPc = "replied"))

\* a booking that passed three timers was answered with success
C20_Witness ==
    /\ contentPc = "replied"
    /\ OptProp(msg, "type") = Str("BOOK_TICKET")
    /\ Len(effects) = 10
    /\ responses = << Obj([success |-> Bool(TRUE), data |-> Obj([message |-> Str("Booking submitted")])]) >>

\* ------------------------------------------------------------------------
\* The messenger of the background script: sendToContent
\* ------------------------------------------------------------------------
\* a tab of the browser; url is Undef when the tab's URL is not visible
Tab(id, url) == Obj([id |-> Num(id), url |-> url])

\* s.startsWith(prefix)
StartsWith(s, prefix) == HasAt(s, prefix, 1)

\* the predicate of allTabs.find
FindPredicate(t) ==
    /\ Truthy(OptProp(t, "url"))
    /\ ~StartsWith(OptProp(t, "url").s, "chrome://")
    /\ ~StartsWith(OptProp(t, "url").s, "edge://")
    /\ ~StartsWith(OptProp(t, "url").s, "about:")

\* a bug the claims must notice: the first tab is taken whatever its URL
FindFirstTab(allTabs) == IF allTabs = << >> THEN Undef ELSE allTabs[1]

\* allTabs.find(...): the first tab the predicate holds for, or undefined
FindTab(allTabs) ==
    IF \A i \in 1..Len(allTabs) : ~FindPredicate(allTabs[i]) THEN Undef
    ELSE allTabs[Min({i \in 1..Len(allTabs) : FindPredicate(allTabs[i])})]

\* the tab chrome.tabs.create hands to its callback
CreatedTab == Tab(9, Str("https://www.google.com"))

\* a bug the claims must notice: the catch block throws the error again
SendCatchRethrows(err) == Thrown(err)

\* the catch block of sendToContent
SendCatch(err) == Returned(Obj([success |-> Bool(FALSE), error |-> Str(err.message)]))

\* the tabs the two queries may answer with
ActiveTabLists ==
    { << >>,
      << Tab(1, Str("https://example.com/")) >>,
      << Tab(1, Str("chrome://extensions")) >> }

AllTabLists ==
    { << >>,
      << Tab(2, Str("chrome://newtab")) >>,
      << Tab(2, Undef), Tab(3, Str("")) >>,
      << Tab(2, Str("")), Tab(3, Str("about:blank")), Tab(4, Str("edge://settings")),
         Tab(5, Str("https://a.example/")), Tab(6, Str("https://b.example/")) >> }

\* the messages the handlers of the router send
SentTypes == {"SEARCH", "WEBSITE_SEARCH", "NAVIGATION"}

SentPayloads ==
    {Obj([type |-> Str(ty), payload |-> Obj([intent |-> Str("search"), entities |-> Obj([query |-> Str("cats")])])]) :
        ty \in SentTypes}

\* the errors the browser reports
BrowserErrors ==
    [query |-> Error("Tabs cannot be queried right now."),
     inject |-> Error("Cannot access a chrome:// URL"),
     noReceiver |-> "Could not establish connection. Receiving end does not exist.",
     portClosed |-> "The message port closed before a response was received."]

\* what the callback of sendMessage may be called with: [lastError, response]
Replies ==
    { [lastError |-> Undef, response |-> Obj([success |-> Bool(TRUE), data |-> Obj([message |-> Str("Redirecting to Google")])])],
      [lastError |-> Undef, response |-> Obj([success |-> Bool(FALSE), error |-> Str("Unknown command")])],
      [lastError |-> Undef, response |-> Undef],
      [lastError |-> Undef, response |-> Null],
      [lastError |-> Str(BrowserErrors.noReceiver), response |-> Undef],
      [lastError |-> Str(BrowserErrors.portClosed), response |-> Undef] }

\* sendToContent(payload) is called: the first query is issued
SendToContent(payload, tabs) ==
    /\ sendPc = "idle"
    /\ sendPayload' = payload
    /\ openTabs' = tabs
    /\ tab' = Undef
    /\ apiCalls' = << "tabs.query active" >>
    /\ faults' = {}
    /\ sendEnd' = Pending
    /\ sendPc' = "queryActive"
    /\ MessengerOnly

\* const tabId = tab.id, then executeScript is issued
InjectInto(t) ==
    IF PropThrows(t)
    THEN /\ sendEnd' = SendCatch(TypeError("Cannot read properties of undefined (reading 'id')"))
         /\ sendPc' = "done"
         /\ UNCHANGED apiCalls
    ELSE /\ apiCalls' = Append(apiCalls, "scripting.executeScript " \o ToString(t.f.id.n))
         /\ sendPc' = "injecting"
         /\ UNCHANGED sendEnd

\* the query of the active tab settles
ActiveQuerySettles(ok) ==
    /\ sendPc = "queryActive"
    /\ IF ~ok
       THEN /\ sendEnd' = SendCatch(BrowserErrors.query)
            /\ sendPc' = "done"
            /\ UNCHANGED <<tab, apiCalls>>
       ELSE IF openTabs.active # << >>
       THEN /\ tab' = openTabs.active[1]
            /\ InjectInto(openTabs.active[1])
       ELSE /\ apiCalls' = Append(apiCalls, "tabs.query all")
            /\ sendPc' = "queryAll"
            /\ UNCHANGED <<tab, sendEnd>>
    /\ UNCHANGED <<sendPayload, openTabs>>
    /\ faults' = IF ~ok THEN faults \cup {"query"} ELSE faults
    /\ MessengerOnly

\* the query of all tabs settles
AllQuerySettles(ok) ==
    /\ sendPc = "queryAll"
    /\ IF ~ok
       THEN /\ sendEnd' = SendCatch(BrowserErrors.query)
            /\ sendPc' = "done"
            /\ UNCHANGED <<tab, apiCalls>>
       ELSE \E found \in {FindTab(openTabs.all)} :
               IF found # Undef
               THEN /\ tab' = found
                    /\ InjectInto(found)
               ELSE /\ apiCalls' = Append(apiCalls, "tabs.create https://www.google.com")
                    /\ sendPc' = "creating"
                    /\ UNCHANGED <<tab, sendEnd>>
    /\ UNCHANGED <<sendPayload, openTabs>>
    /\ faults' = IF ~ok THEN faults \cup {"query"} ELSE faults
    /\ MessengerOnly

\* the callback of chrome.tabs.create is called: with the tab, or with
\* undefined when the creation failed; the load delay starts
CreateSettles(ok) ==
    /\ sendPc = "creating"
    /\ tab' = IF ok THEN CreatedTab ELSE Undef
    /\ apiCalls' = Append(apiCalls, "setTimeout 2000")
    /\ sendPc' = "loadWait"
    /\ UNCHANGED <<sendPayload, openTabs, sendEnd>>
    /\ faults' = IF ~ok THEN faults \cup {"create"} ELSE faults
    /\ MessengerOnly

\* the load delay elapses
LoadDelayElapses ==
    /\ sendPc = "loadWait"
    /\ InjectInto(tab)
    /\ UNCHANGED <<sendPayload, openTabs, tab>>
    /\ UNCHANGED faults
    /\ MessengerOnly

\* a bug the claims must notice: the message is sent whether or not the
\* injection succeeded, and without the listener delay
InjectionSettlesUnchecked(ok) ==
    /\ sendPc = "injecting"
    /\ apiCalls' = Append(apiCalls, "tabs.sendMessage " \o ToString(tab.f.id.n))
    /\ sendPc' = "sending"
    /\ faults' = IF ~ok THEN faults \cup {"inject"} ELSE faults
    /\ UNCHANGED <<sendPayload, openTabs, tab, sendEnd>>
    /\ MessengerOnly

\* executeScript settles; on success the listener delay starts
InjectionSettles(ok) ==
    /\ sendPc = "injecting"
    /\ IF ok
       THEN /\ apiCalls' = Append(apiCalls, "setTimeout 600")
            /\ sendPc' = "listenerWait"
            /\ UNCHANGED sendEnd
       ELSE /\ sendEnd' = SendCatch(BrowserErrors.inject)
            /\ sendPc' = "done"
            /\ UNCHANGED apiCalls
    /\ UNCHANGED <<sendPayload, openTabs, tab>>
    /\ faults' = IF ~ok THEN faults \cup {"inject"} ELSE faults
    /\ MessengerOnly

\* the listener delay elapses: the message is sent
ListenerDelayElapses ==
    /\ sendPc = "listenerWait"
    /\ apiCalls' = Append(apiCalls, "tabs.sendMessage " \o ToString(tab.f.id.n))
    /\ sendPc' = "sending"
    /\ UNCHANGED <<sendPayload, openTabs, tab, sendEnd>>
    /\ UNCHANGED faults
    /\ MessengerOnly

\* the callback of sendMessage is called
ReplyArrives(reply) ==
    /\ sendPc = "sending"
    /\ sendEnd' = IF reply.lastError # Undef THEN SendCatch(Error(reply.lastError.s))
                  ELSE IF ~Truthy(reply.response) THEN SendCatch(Error("No response from content.js"))
                  ELSE Returned(reply.response)
    /\ sendPc' = "done"
    /\ UNCHANGED <<sendPayload, openTabs, tab, apiCalls>>
    /\ faults' = IF reply.lastError # Undef THEN faults \cup {"lastError"}
                 ELSE IF ~Truthy(reply.response) THEN faults \cup {"noReply"}
                 ELSE faults
    /\ MessengerOnly

\* the caller has the result; the messenger is free for the next call
SendToContentDone ==
    /\ sendPc = "done"
    /\ sendPc' = "idle"
    /\ sendPayload' = Undef
    /\ openTabs' = NoTabs
    /\ tab' = Undef
    /\ apiCalls' = << >>
    /\ faults' = {}
    /\ sendEnd' = Pending
    /\ MessengerOnly

NextMessenger ==
    \/ \E payload \in SentPayloads, a \in ActiveTabLists, l \in AllTabLists :
          SendToContent(payload, [active |-> a, all |-> l])
    \/ \E ok \in BOOLEAN : ActiveQuerySettles(ok)
    \/ \E ok \in BOOLEAN : AllQuerySettles(ok)
    \/ \E ok \in BOOLEAN : CreateSettles(ok)
    \/ LoadDelayElapses
    \/ \E ok \in BOOLEAN : InjectionSettles(ok)
    \/ ListenerDelayElapses
    \/ \E reply \in Replies : ReplyArrives(reply)
    \/ SendToContentDone

\* The browser settles its API calls and fires its timers. Whether the page
\* ever calls the reply callback is up to the page.
SpecMessenger ==
    /\ Init /\ [][NextMessenger]_vars
    /\ WF_vars(\E ok \in BOOLEAN : ActiveQuerySettles(ok))
    /\ WF_vars(\E ok \in BOOLEAN : AllQuerySettles(ok))
    /\ WF_vars(\E ok \in BOOLEAN : CreateSettles(ok))
    /\ WF_vars(LoadDelayElapses)
    /\ WF_vars(\E ok \in BOOLEAN : InjectionSettles(ok))
    /\ WF_vars(ListenerDelayElapses)

\* C21: sendToContent never rejects, and whenever the tab query, the tab
\* creation, the injection or the send failed (runtime lastError), or no
\* reply came, it resolves to { success: false, error } with a non-empty
\* error text.
C21_FailuresResolve ==
    /\ sendEnd.kind # "thrown"
    /\ sendPc = "done" => sendEnd.kind = "returned"
    /\ (sendPc = "done" /\ faults # {})
          => /\ sendEnd.value.t = "object"
             /\ DOMAIN sendEnd.value.f = {"success", "error"}
             /\ sendEnd.value.f.success = Bool(FALSE)
             /\ sendEnd.value.f.error.t = "string"
             /\ Len(sendEnd.value.f.error.s) > 0

\* the creation of the tab failed, and the call resolved to a failure
C21_Witness ==
    /\ sendPc = "done"
    /\ faults = {"create"}
    /\ sendEnd = Returned(Obj([success |-> Bool(FALSE),
                                error |-> Str("Cannot read properties of undefined (reading 'id')")]))

\* C22: every call of sendToContent returns in the end, also when the page
\* never calls the reply callback.
C22_EventuallyReturns == (sendPc = "queryActive") ~> (sendPc = "done")

\* an open tab the resolution may fall back to: its URL is non-empty and on
\* none of the internal schemes
Usable(t) ==
    /\ OptProp(t, "url").t = "string"
    /\ OptProp(t, "url").s # ""
    /\ \A scheme \in {"chrome://", "edge://", "about:"} :
          SubSeq(OptProp(t, "url").s, 1, Len(scheme)) # scheme

\* whether call c was started
Started(c) == \E i \in 1..Len(apiCalls) : apiCalls[i] = c

\* the position of call c among the calls started
CallIndex(c) == CHOOSE i \in 1..Len(apiCalls) : apiCalls[i] = c

\* C23: the target is the active tab of the current window when there is
\* one; only without one, the first open tab with a non-empty URL off
\* chrome://, edge:// and about:; only without either, a newly created tab
\* on the default page, followed by the load delay before anything else is
\* done with it. No tab is created when an existing one was selected.
C23_ResolutionOrder ==
    /\ Started("tabs.query all") => openTabs.active = << >>
    /\ Started("tabs.create https://www.google.com")
          => /\ openTabs.active = << >>
             /\ \A i \in 1..Len(openTabs.all) : ~Usable(openTabs.all[i])
             /\ Started("tabs.query all")
             /\ CallIndex("tabs.query all") < CallIndex("tabs.create https://www.google.com")
             /\ Len(apiCalls) > CallIndex("tabs.create https://www.google.com")
                   => apiCalls[CallIndex("tabs.create https://www.google.com") + 1] = "setTimeout 2000"
    /\ sendPc \in {"injecting", "listenerWait", "sending"}
          => /\ openTabs.active # << >> => tab = openTabs.active[1]
             /\ (openTabs.active = << >> /\ \E i \in 1..Len(openTabs.all) : Usable(openTabs.all[i]))
                   => \E i \in 1..Len(openTabs.all) :
                         /\ Usable(openTabs.all[i])
                         /\ \A j \in 1..(i - 1) : ~Usable(openTabs.all[j])
                         /\ tab = openTabs.all[i]
             /\ (openTabs.active = << >> /\ \A i \in 1..Len(openTabs.all) : ~Usable(openTabs.all[i]))
                   => /\ tab = CreatedTab
                      /\ Started("setTimeout 2000")
             /\ (\E i \in 1..Len(openTabs.active) : tab = openTabs.active[i])
                 \/ (\E i \in 1..Len(openTabs.all) : tab = openTabs.all[i])
                   => ~Started("tabs.create https://www.google.com")

\* the fifth open tab was selected: no tab was active, and the four before
\* it had no URL or an internal one
C23_Witness ==
    /\ sendPc = "sending"
    /\ openTabs.active = << >>
    /\ Len(openTabs.all) = 5
    /\ tab = Tab(5, Str("https://a.example/"))
    /\ apiCalls = << "tabs.query active", "tabs.query all", "scripting.executeScript 5",
                     "setTimeout 600", "tabs.sendMessage 5" >>

\* ------------------------------------------------------------------------
\* The executor's replies and what it did to the page
\* ------------------------------------------------------------------------
\* the listener answered a message of type ty
Answered(ty) ==
    /\ contentPc = "replied"
    /\ OptProp(msg, "type") = Str(ty)

\* the entity k of the message's payload, Undef when there is none
MsgEntity(k) == OptProp(OptProp(OptProp(msg, "payload"), "entities"), k)

\* the positions of the page operations named op
EffectsAt(op) == {i \in 1..Len(effects) : effects[i].op = op}

\* C24: no message type the messenger sends (NAVIGATION included) is
\* answered with the 'Unknown command' error.
C24_SentTypesHandled ==
    \A ty \in SentTypes :
        Answered(ty) => responses[1] # Obj([success |-> Bool(FALSE), error |-> Str("Unknown command")])

\* C25: every SEARCH request is answered with success, whatever its payload.
C25_SearchAlwaysSucceeds ==
    Answered("SEARCH") => responses[1].f.success = Bool(TRUE)

\* C26: a WEBSITE_SEARCH with a non-empty query on a document without a
\* search input is answered with success false and the error of the missing
\* element, and nothing was done to the page: no value set, no event
\* dispatched, no form submitted.
C26_NoSearchBoxFails ==
    (/\ Answered("WEBSITE_SEARCH")
     /\ MsgEntity("query").t = "string"
     /\ MsgEntity("query").s # ""
     /\ ~dom.searchBox)
        => /\ responses = << Obj([success |-> Bool(FALSE), error |-> Str("Search box not found")]) >>
           /\ effects = << >>

\* the query 'cats & dogs' met a document without search input
C26_Witness ==
    /\ Answered("WEBSITE_SEARCH")
    /\ MsgEntity("query") = Str("cats & dogs")
    /\ ~dom.searchBox
    /\ dom.inputs # {}
    /\ responses # << >>
    /\ responses[1].f.success = Bool(FALSE)

\* the requested fields the document holds an input or textarea for, by name
\* or by id
Fillable == {k \in DOMAIN MsgEntity("form_fields").f : k \in dom.inputs \cup dom.idOnly}

\* C27: the count in the message of a FORM_FILL equals the number of
\* requested fields the document holds an element for whose name or id
\* contains the key; it never exceeds the number requested, and a lower
\* count, 0 included, is a success.
C27_FilledCount ==
    (Answered("FORM_FILL") /\ MsgEntity("form_fields").t = "object")
        => /\ responses[1] = Obj([success |-> Bool(TRUE),
                                  data |-> Obj([message |-> Str("Filled " \o ToString(Cardinality(Fillable)) \o " fields")])])
           /\ Cardinality(Fillable) <= Cardinality(DOMAIN MsgEntity("form_fields").f)

\* C28: a BOOK_TICKET fills from, to, date in this order, each fill followed
\* by its delay before anything else is done; an empty or absent entity
\* changes nothing on the page; the submit control is clicked at most once,
\* and only after the last fill and its delay.
C28_BookingOrder ==
    (Answered("BOOK_TICKET") /\ settling.kind = "returned")
        => /\ \A i \in EffectsAt("el.value from"), j \in EffectsAt("el.value to") : i < j
           /\ \A i \in EffectsAt("el.value to"), j \in EffectsAt("el.value date") : i < j
           /\ \A i \in EffectsAt("el.value from"), j \in EffectsAt("el.value date") : i < j
           /\ \A k \in {"from", "to", "date"} :
                 /\ Cardinality(EffectsAt("el.value " \o k)) <= 1
                 /\ \A i \in EffectsAt("el.value " \o k) :
                       /\ i + 2 <= Len(effects)
                       /\ effects[i + 1] = [op |-> "dispatchEvent input", arg |-> k]
                       /\ effects[i + 2] = [op |-> "wait", arg |-> "200"]
                 /\ ~Truthy(MsgEntity(k))
                       => \A i \in 1..Len(effects) : effects[i].op # "el.value " \o k /\ effects[i].arg # k
           /\ Cardinality(EffectsAt("button.click")) <= 1
           /\ \A i \in EffectsAt("button.click") : i = Len(effects)

\* from and date were filled, the empty to was skipped, and submit was clicked
C28_Witness ==
    /\ Answered("BOOK_TICKET")
    /\ MsgEntity("to") = Str("")
    /\ "to" \in dom.inputs
    /\ effects = << [op |-> "el.value from", arg |-> "Delhi"],
                    [op |-> "dispatchEvent input", arg |-> "from"],
                    [op |-> "wait", arg |-> "200"],
                    [op |-> "el.value date", arg |-> "2026-11-03"],
                    [op |-> "dispatchEvent input", arg |-> "date"],
                    [op |-> "wait", arg |-> "200"],
                    [op |-> "button.click", arg |-> ""] >>

\* the summary the listener answered with
Summary == responses[1].f.data.f.summary.s

\* C29: the summary of SUMMARIZE has at most 5000 characters, no run of
\* more than one white space character, and no white space at either end.
C29_SummaryNormalized ==
    (Answered("SUMMARIZE") /\ settling.kind = "returned")
        => /\ Len(Summary) <= 5000
           /\ \A i \in 1..(Len(Summary) - 1) :
                 ~(Char(Summary, i) \in Whitespace /\ Char(Summary, i + 1) \in Whitespace)
           /\ Summary # "" => (Char(Summary, 1) \notin Whitespace /\ Char(Summary, Len(Summary)) \notin Whitespace)

\* ------------------------------------------------------------------------
\* The executor's handlers on a page that persists between two requests
\* ------------------------------------------------------------------------
\* el.value = v for the element of key
SetValue(values, key, v) ==
    [k \in DOMAIN values \cup {key} |-> IF k = key THEN v ELSE values[k]]

\* one operation of a handler on the page
ApplyEffect(pg, e) ==
    IF e.op = "input.value" THEN [pg EXCEPT !.values = SetValue(pg.values, "search", e.arg)]
    ELSE IF HasAt(e.op, "el.value ", 1)
    THEN [pg EXCEPT !.values = SetValue(pg.values, SubSeq(e.op, 10, Len(e.op)), e.arg)]
    ELSE IF e.op = "dispatchEvent input" THEN [pg EXCEPT !.events = pg.events + 1]
    ELSE IF e.op = "form.submit" THEN [pg EXCEPT !.submissions = pg.submissions + 1]
    ELSE IF e.op = "button.click" THEN [pg EXCEPT !.clicks = pg.clicks + 1]
    ELSE pg

\* the operations of a handler from the i-th on
RECURSIVE ApplyEffects(_, _, _)
ApplyEffects(pg, did, i) ==
    IF i > Len(did) THEN pg ELSE ApplyEffects(ApplyEffect(pg, did[i]), did, i + 1)

\* the handler of message m runs to its end on a fresh page of document doc
Execute(m, doc) ==
    /\ results = << >>
    /\ request' = m
    /\ document' = doc
    /\ \E r \in {SelectedRun(m, doc)} :
          /\ page' = ApplyEffects(FreshPage, r.effects, 1)
          /\ results' = << r.end >>
    /\ ExecutorOnly

\* the same request is executed once more on the page as the first run left it
ExecuteAgain ==
    /\ Len(results) = 1
    /\ \E r \in {SelectedRun(request, document)} :
          /\ page' = ApplyEffects(page, r.effects, 1)
          /\ results' = Append(results, r.end)
    /\ UNCHANGED <<request, document>>
    /\ ExecutorOnly

\* the page is closed
PageClosed ==
    /\ Len(results) = 2
    /\ request' = Undef
    /\ document' = NoDom
    /\ page' = FreshPage
    /\ results' = << >>
    /\ ExecutorOnly

NextExecutor ==
    \/ \E m \in ContentMessages, doc \in Documents : Execute(m, doc)
    \/ ExecuteAgain
    \/ PageClosed

SpecExecutor == Init /\ [][NextExecutor]_vars

\* the page as one run of the request leaves it
PageAfterOnce == ApplyEffects(FreshPage, SelectedRun(request, document).effects, 1)

\* C30: a FORM_FILL, BOOK_TICKET, WEBSITE_SEARCH or SUMMARIZE executed twice
\* in sequence on the same document leaves the field values and the number
\* of form submissions as one execution does, and returns the same result.
C30_Idempotent ==
    (/\ Len(results) = 2
     /\ \E ty \in {"FORM_FILL", "BOOK_TICKET", "WEBSITE_SEARCH", "SUMMARIZE"} : OptProp(request, "type") = Str(ty))
        => /\ results[2] = results[1]
           /\ page.values = PageAfterOnce.values
           /\ page.submissions = PageAfterOnce.submissions

\* ------------------------------------------------------------------------
\* The rule engine run twice on one text
\* ------------------------------------------------------------------------
\* the environments of another run on the same text: another clock and
\* another random choice; what eval makes of an expression is the same
OtherRuns(e) ==
    {[e EXCEPT !.time = c.time, !.date = c.date, !.joke = c.joke] : c \in RunEnvs}

\* C31: two runs of the rule engine on the same text return the same
\* intent, confidence and model marker whatever the clock and the random
\* source; message and entities differ at most for the time, date and joke
\* patterns, and a joke is one of the ten literals.
C31_Reproducible ==
    fallbackCalls > 0
        => \A e \in OtherRuns(env) : \A r \in {fallbackIntentRecognition(fallbackArg.s, e)} :
              /\ r.f.intent = fallbackValue.f.intent
              /\ r.f.confidence = fallbackValue.f.confidence
              /\ r.f.model = fallbackValue.f.model
              /\ fallbackValue.f.intent.s \notin {"time", "date", "joke"}
                    => (r.f.message = fallbackValue.f.message /\ r.f.entities = fallbackValue.f.entities)
              /\ fallbackValue.f.intent.s = "joke"
                    => (Len(Jokes) = 10 /\ \E i \in 1..10 : r.f.message = Str(Jokes[i]))

\* a joke was told, and another run on the same text tells another one
C31_Witness ==
    /\ fallbackCalls > 0
    /\ fallbackValue.f.intent = Str("joke")
    /\ \E e \in OtherRuns(env) : \E r \in {fallbackIntentRecognition(fallbackArg.s, e)} :
          /\ r.f.message # fallbackValue.f.message
          /\ r.f.intent = Str("joke")

\* ------------------------------------------------------------------------
\* The messenger: injection before the send
\* ------------------------------------------------------------------------
\* the calls that send a message to some tab
SendsTo(id) == {i \in 1..Len(apiCalls) : apiCalls[i] = "tabs.sendMessage " \o ToString(id)}

TabIds == {1, 2, 3, 4, 5, 6, 9}

\* C33: a message is sent to a tab only after the script was injected into
\* that very tab and the listener delay has elapsed since; when the target
\* resolution or the injection failed, no message is sent to any tab.
C33_InjectBeforeSend ==
    /\ \A id \in TabIds : \A i \in SendsTo(id) :
          /\ i >= 3
          /\ apiCalls[i - 2] = "scripting.executeScript " \o ToString(id)
          /\ apiCalls[i - 1] = "setTimeout 600"
          /\ tab # Undef
          /\ tab.f.id = Num(id)
          /\ "inject" \notin faults
    /\ faults \cap {"query", "create", "inject"} # {} => \A id \in TabIds : SendsTo(id) = {}
    /\ Cardinality(UNION {SendsTo(id) : id \in TabIds}) <= 1
    /\ sendPc = "sending" => \E id \in TabIds : SendsTo(id) # {}

\* the message went to the created tab after injection and delay; elsewhere
\* an injection failed and nothing was sent
C33_Witness ==
    /\ sendPc = "sending"
    /\ apiCalls = << "tabs.query active", "tabs.query all", "tabs.create https://www.google.com",
                     "setTimeout 2000", "scripting.executeScript 9", "setTimeout 600",
                     "tabs.sendMessage 9" >>

\* C36: the tab the script is injected into never has a URL on chrome://,
\* edge:// or about:, whichever step selected it.
C36_NoRestrictedTarget ==
    \A i \in 1..Len(apiCalls) :
        HasAt(apiCalls[i], "scripting.executeScript", 1)
            => /\ OptProp(tab, "url").t = "string"
               /\ \A scheme \in {"chrome://", "edge://", "about:"} : ~HasAt(OptProp(tab, "url").s, scheme, 1)

\* ------------------------------------------------------------------------
\* Two calls of processIntent in flight at once
\* ------------------------------------------------------------------------
Callers == {1, 2}

ConcurrentCommands == {Str("hello"), Str("tell me a joke"), Str("   "), Undef}

\* replies and failures of the upstream for the two calls
ConcurrentUpstreams ==
    { [kind |-> "reply", content |-> <<"obj">>, members |-> ModelReply("search", "best laptops", "", ""), status |-> Undef],
      [kind |-> "reply", content |-> <<"obj">>,
       members |-> ModelReply("navigation", "", "youtube", "https://www.youtube.com"), status |-> Undef],
      [kind |-> "reply", content |-> <<"prose">>, members |-> NoObject, status |-> Undef],
      [kind |-> "error", content |-> << >>, members |-> NoObject, status |-> Num(401)],
      [kind |-> "error", content |-> << >>, members |-> NoObject, status |-> Num(503)] }

\* a call that has not begun
IdleCall ==
    [pc |-> "idle", text |-> Undef, userText |-> Undef, handle |-> 0,
     upstream |-> NoUpstream, env |-> NoEnv, outcome |-> Pending]

\* processIntent(t) of caller i where the validation throws
CallRejects(i, t) ==
    /\ calls[i].pc = "idle"
    /\ ValidateText(t).kind = "thrown"
    /\ calls' = [calls EXCEPT ![i] = [@ EXCEPT !.pc = "done", !.text = t,
                                              !.outcome = ProcessIntentFinish(build, ValidateText(t))]]
    /\ ConcurrentOnly

\* processIntent(t) of caller i where callGrok finds no client
CallWithoutClient(i, t, e) ==
    /\ calls[i].pc = "idle"
    /\ ValidateText(t).kind = "returned"
    /\ grokClient = 0
    /\ \E u \in {ValidateText(t).value} : \E r \in {CallGrokWithoutClient(fallbackIntentRecognition(u.s, e))} :
          calls' = [calls EXCEPT ![i] = [@ EXCEPT !.pc = "done", !.text = t, !.userText = u, !.env = e,
                                                 !.outcome = ProcessIntentFinish(build, r.end)]]
    /\ ConcurrentOnly

\* processIntent(t) of caller i up to the await of grokClient.responses.create
CallStartsModel(i, t) ==
    /\ calls[i].pc = "idle"
    /\ ValidateText(t).kind = "returned"
    /\ grokClient # 0
    /\ calls' = [calls EXCEPT ![i] = [@ EXCEPT !.pc = "awaiting", !.text = t,
                                              !.userText = ValidateText(t).value, !.handle = grokClient]]
    /\ ConcurrentOnly

\* a bug the claims must notice: userText is kept in a variable of the module,
\* so the resumed call parses for the text of the call that began after it
CallSettlesShared(i, up, e) ==
    /\ calls[i].pc = "awaiting"
    /\ \E u \in {IF calls[3 - i].userText # Undef THEN calls[3 - i].userText ELSE calls[i].userText} :
       \E r \in {CallGrokResume(up, fallbackIntentRecognition(u.s, e))} :
          calls' = [calls EXCEPT ![i] = [@ EXCEPT !.pc = "done", !.upstream = up, !.env = e,
                                                 !.outcome = ProcessIntentFinish(build, r.end)]]
    /\ ConcurrentOnly

\* the model call of caller i settles as `up`; its callGrok and processIntent
\* run to their end on their own locals
CallSettles(i, up, e) ==
    /\ calls[i].pc = "awaiting"
    /\ \E u \in {calls[i].userText} : \E r \in {CallGrokResume(up, fallbackIntentRecognition(u.s, e))} :
          calls' = [calls EXCEPT ![i] = [@ EXCEPT !.pc = "done", !.upstream = up, !.env = e,
                                                 !.outcome = ProcessIntentFinish(build, r.end)]]
    /\ ConcurrentOnly

\* caller i has its result; its next command starts a new call
CallReturned(i) ==
    /\ calls[i].pc = "done"
    /\ calls' = [calls EXCEPT ![i] = IdleCall]
    /\ ConcurrentOnly

\* reinitializeGrokClient() while calls are in flight
HandleReplaced(apiKey) ==
    /\ ReinitializeGrokClient(apiKey, FALSE)
    /\ UNCHANGED calls

NextConcurrent ==
    \/ \E i \in Callers, t \in ConcurrentCommands : CallRejects(i, t)
    \/ \E i \in Callers, t \in ConcurrentCommands, e \in RunEnvs : CallWithoutClient(i, t, e)
    \/ \E i \in Callers, t \in ConcurrentCommands : CallStartsModel(i, t)
    \/ \E i \in Callers, up \in ConcurrentUpstreams, e \in RunEnvs : CallSettles(i, up, e)
    \/ \E i \in Callers : CallReturned(i)
    \/ \E apiKey \in {"", "xai-key"} : HandleReplaced(apiKey)

SpecConcurrent == Init /\ [][NextConcurrent]_vars

\* what processIntent returns for the command, the handle and the upstream
\* outcome of call c when no other call is in flight
AloneOutcome(c) ==
    IF ValidateText(c.text).kind = "thrown" THEN ProcessIntentFinish(build, ValidateText(c.text))
    ELSE IF c.handle = 0
    THEN ProcessIntentFinish(build, CallGrokWithoutClient(fallbackIntentRecognition(Trim(c.text.s), c.env)).end)
    ELSE ProcessIntentFinish(build, CallGrokResume(c.upstream, fallbackIntentRecognition(Trim(c.text.s), c.env)).end)

\* C32: of two calls of processIntent in flight at once, each ends as it
\* would alone, whatever the interleaving at the await of the model call:
\* with the result for its own text and its own upstream reply or failure.
C32_CallsIsolated ==
    \A i \in Callers : calls[i].pc = "done" => \E c \in {calls[i]} : c.outcome = AloneOutcome(c)

\* the first call has ended with the result for its own text and failure
\* while the model call of the second, for another text, is still in flight
C32_Witness ==
    /\ calls[1].pc = "done" /\ calls[2].pc = "awaiting"
    /\ calls[1].text = Str("hello") /\ calls[2].text = Str("tell me a joke")
    /\ calls[1].handle # 0
    /\ calls[1].upstream.status = Num(503)
    /\ calls[1].outcome.kind = "returned"

\* ------------------------------------------------------------------------
\* The router: the onMessage listener of search.js and its handlers
\* ------------------------------------------------------------------------
UpperChar(c) == IF c \in LowerLetters THEN CHOOSE u \in UpperLetters : LowerOf[u] = c ELSE c

RECURSIVE ToUpperFrom(_, _)
ToUpperFrom(s, i) ==
    IF i > Len(s) THEN "" ELSE UpperChar(Char(s, i)) \o ToUpperFrom(s, i + 1)

\* String.prototype.toUpperCase
ToUpperCase(s) == ToUpperFrom(s, 1)

\* message.data.data
RouterData(message) == OptProp(OptProp(message, "data"), "data")

\* message.data.data.intent.toUpperCase(): the text, or the TypeError of a
\* message that lacks the nested shape
RouterCommand(message) ==
    IF PropThrows(message) \/ PropThrows(OptProp(message, "data")) \/ PropThrows(RouterData(message))
    THEN Thrown(TypeError("Cannot read properties of undefined"))
    ELSE IF OptProp(RouterData(message), "intent").t # "string"
    THEN Thrown(TypeError("message.data.data.intent.toUpperCase is not a function"))
    ELSE Returned(Str(ToUpperCase(OptProp(RouterData(message), "intent").s)))

\* the cases of the router's switch
RouterCommands == {"SEARCH", "NAVIGATION", "FORM_FILL", "WEBSITE_SEARCH", "BOOK_TICKET", "SUMMARIZE"}

\* What a handler of the router meets: the result sendToContent resolves
\* to, how many of the requested fields have an input, and the body text
\* (Null without body).
RouterEnvs ==
    [sent : {Obj([success |-> Bool(TRUE), data |-> Obj([message |-> Str("Redirecting to Google")])]),
             Obj([success |-> Bool(FALSE), error |-> Str("No response from content.js")])},
     filled : {0, 1},
     body : {Null, Str(" Hello  world ")}]

\* the handler the switch selects, run on data in environment e
RouterHandler(command, data, e) ==
    CASE command \in {"SEARCH", "NAVIGATION", "WEBSITE_SEARCH"} -> Returned(e.sent)
      [] command = "FORM_FILL" ->
           IF PropThrows(OptProp(data, "entities"))
           THEN Thrown(TypeError("Cannot read properties of undefined (reading 'form_fields')"))
           ELSE IF ~Truthy(OptProp(OptProp(data, "entities"), "form_fields"))
           THEN Thrown(Error("No form fields provided"))
           ELSE IF DOMAIN OptProp(OptProp(data, "entities"), "form_fields").f = {}
           THEN Thrown(Error("No form fields provided"))
           ELSE Returned(Obj([success |-> Bool(TRUE),
                              message |-> Str("Filled " \o ToString(e.filled) \o " fields")]))
      [] command = "BOOK_TICKET" ->
           IF PropThrows(OptProp(data, "entities"))
           THEN Thrown(TypeError("Cannot destructure property 'from' of 'data.entities' as it is undefined."))
           ELSE Returned(Obj([success |-> Bool(TRUE), message |-> Str("Booking form processed")]))
      [] command = "SUMMARIZE" ->
           IF e.body = Null THEN Thrown(TypeError("Cannot read properties of null (reading 'innerText')"))
           ELSE Returned(Obj([success |-> Bool(TRUE),
                              summary |-> Str(Trim(CollapseFrom(e.body.s, 1, FALSE))),
                              message |-> Str("Page content extracted")]))

\* the messages delivered to the router
RouterMessages ==
    {Obj([data |-> Obj([data |-> Obj([intent |-> Str(i), entities |-> en])])]) :
        i \in {"search", "navigation", "form_fill", "website_search", "book_ticket", "summarize", "qna", "SEARCH"},
        en \in {Undef, EmptyObj, Obj([query |-> Str("cats")]),
                Obj([form_fields |-> Obj([name |-> Str("Ann")])]),
                Obj([from |-> Str("Delhi"), to |-> Str("Pune"), date |-> Str("2026-11-03")])}}
    \cup { Undef, Null, EmptyObj,
           Obj([type |-> Str("SEARCH"), payload |-> Obj([intent |-> Str("search")])]),
           Obj([data |-> Obj([intent |-> Str("search")])]),
           Obj([data |-> Obj([data |-> EmptyObj])]),
           Obj([data |-> Obj([data |-> Obj([intent |-> Num(5)])])]),
           Obj([data |-> Obj([data |-> Null])]) }

\* The listener is called with message: it logs the command, which throws
\* for a message without the nested shape; otherwise its async body runs to
\* its first await, or to its reply in the default case, and it returns true.
RouterReceives(message, e) ==
    /\ routerPc = "idle"
    /\ routerMsg' = message
    /\ \E c \in {RouterCommand(message)} :
          IF c.kind = "thrown"
          THEN /\ routerPc' = "threw"
               /\ routerSettling' = c
               /\ UNCHANGED routerReplies
          ELSE IF c.value.s \notin RouterCommands
          THEN /\ routerPc' = "replied"
               /\ routerSettling' = Returned(Obj([success |-> Bool(FALSE), error |-> Str("Unknown command")]))
               /\ routerReplies' = Append(routerReplies,
                                          Obj([success |-> Bool(TRUE),
                                               data |-> Obj([success |-> Bool(FALSE), error |-> Str("Unknown command")])]))
          ELSE /\ routerPc' = "awaiting"
               /\ routerSettling' = RouterHandler(c.value.s, RouterData(message), e)
               /\ UNCHANGED routerReplies
    /\ RouterOnly

\* the awaited handler settles: the async body resumes and answers
RouterHandlerSettles ==
    /\ routerPc = "awaiting"
    /\ routerPc' = "replied"
    /\ routerReplies' = Append(routerReplies, ResponseOf(routerSettling))
    /\ UNCHANGED <<routerMsg, routerSettling>>
    /\ RouterOnly

\* the message is done with
RouterDone ==
    /\ routerPc \in {"threw", "replied"}
    /\ routerPc' = "idle"
    /\ routerMsg' = Undef
    /\ routerSettling' = Pending
    /\ routerReplies' = << >>
    /\ RouterOnly

NextRouter ==
    \/ \E message \in RouterMessages, e \in RouterEnvs : RouterReceives(message, e)
    \/ RouterHandlerSettles
    \/ RouterDone

\* settled promises resume their awaiting bodies
SpecRouter == Init /\ [][NextRouter]_vars /\ WF_vars(RouterHandlerSettles)

\* C34: the router's listener answers every message exactly once: when the
\* listener is through with a message, sendResponse was called once, also for
\* a handler that threw and for a message without message.data.data.intent.
C34_RouterAlwaysReplies ==
    /\ Len(routerReplies) <= 1
    /\ routerPc \in {"threw", "replied"} => Len(routerReplies) = 1

\* ------------------------------------------------------------------------
\* Injection on every request: sendToContent, steps 4 to 6, and the pages
\* ------------------------------------------------------------------------
\* the pages a request finds in a tab: no search box, a search box outside a
\* form, a search box in a form
InjectedDocuments ==
    {NoDom, [NoDom EXCEPT !.searchBox = TRUE],
     [NoDom EXCEPT !.searchBox = TRUE, !.searchForm = TRUE]}

\* what one listener of the content script runs for a message on a page
ListenerRun(message, doc) ==
    CASE OptProp(message, "type") = Str("SEARCH") -> googleSearch(OptProp(message, "payload"))
      [] OptProp(message, "type") = Str("WEBSITE_SEARCH") -> websiteSearch(OptProp(message, "payload"), doc)
      [] OTHER -> HandlerRun(Thrown(Error("Unknown command")), 0, << >>)

\* the handler leaves the page: location.href is assigned or the form is
\* submitted, and the document with its listeners is replaced
ReplacesPage(run) ==
    \E i \in 1..Len(run.effects) : run.effects[i].op \in {"setTimeout location.href", "form.submit"}

\* sendToContent from the injection on: executeScript runs content.js in the
\* tab once more, which registers one more onMessage listener in the page;
\* tabs.sendMessage then calls every listener registered there, each runs its
\* handler and calls sendResponse, and the first response is the one taken
InjectAndSend(id, message, doc) ==
    /\ Len(deliveries) < MaxSends
    /\ \E n \in {listeners[id] + 1} :
          /\ deliveries' = Append(deliveries,
                                  [tab |-> id, type |-> OptProp(message, "type"),
                                   injectedBefore |-> listeners[id],
                                   executions |-> n, sendResponses |-> n])
          /\ listeners' = [listeners EXCEPT ![id] = IF ReplacesPage(ListenerRun(message, doc)) THEN 0 ELSE n]
    /\ InjectionOnly

\* the user reloads the page of a tab or goes elsewhere in it
PageReplaced(id) ==
    /\ listeners[id] > 0
    /\ listeners' = [listeners EXCEPT ![id] = 0]
    /\ UNCHANGED deliveries
    /\ InjectionOnly

NextInjection ==
    \/ \E id \in InjectedTabs, message \in SentPayloads, doc \in InjectedDocuments :
          InjectAndSend(id, message, doc)
    \/ \E id \in InjectedTabs : PageReplaced(id)

SpecInjection == Init /\ [][NextInjection]_vars

\* C35: every request sent by sendToContent is executed exactly once by the
\* content script, however many requests were sent to the same tab before.
C35_ExecutedOnce ==
    \A i \in 1..Len(deliveries) : deliveries[i].executions = 1

\* ------------------------------------------------------------------------
\* The VoiceEngine (part_008): control methods, event handlers, restart timer
\* ------------------------------------------------------------------------
\* the error types the browser reports; the last one is not in errorMap
ErrorTypes ==
    {"no-speech", "audio-capture", "not-allowed", "network", "aborted",
     "service-not-allowed", "language-not-supported"}

\* the entries of errorMap with fatal: true
FatalTypes == {"audio-capture", "not-allowed", "service-not-allowed"}

\* the private state of the engine, with what the call at hand did so far
Engine ==
    [isInitialized |-> isInitialized, isListening |-> isListening,
     shouldAutoRestart |-> shouldAutoRestart, restartTimeout |-> restartTimeout,
     recognition |-> recognition, invoked |-> FALSE, scheduled |-> FALSE,
     returned |-> "none"]

\* the state after a call or a handler that ended in v
EngineBecomes(v) ==
    /\ isInitialized' = v.isInitialized
    /\ isListening' = v.isListening
    /\ shouldAutoRestart' = v.shouldAutoRestart
    /\ restartTimeout' = v.restartTimeout
    /\ recognition' = v.recognition
    /\ invoked' = v.invoked
    /\ scheduled' = v.scheduled

\* recognition.start(): a session begins when none is under way; otherwise
\* the browser throws InvalidStateError, which both callers catch
RecognitionStart(v) ==
    [v EXCEPT !.invoked = TRUE,
              !.recognition = IF @ = "inactive" THEN "started" ELSE @]

\* recognition.stop() and recognition.abort(): a session under way ends
\* later, with an end event
RecognitionStop(v) ==
    [v EXCEPT !.recognition = IF @ \in {"started", "active"} THEN "stopping" ELSE @]

initialize(v) ==
    IF v.isInitialized THEN v
    ELSE [v EXCEPT !.recognition = "inactive", !.isInitialized = TRUE]

clearRestartTimeout(v) ==
    IF v.restartTimeout # "null" THEN [v EXCEPT !.restartTimeout = "null"] ELSE v

scheduleRestart(v) ==
    [clearRestartTimeout(v) EXCEPT !.restartTimeout = "pending", !.scheduled = TRUE]

\* the callback scheduleRestart hands to setTimeout
RestartCallback(v) ==
    IF v.shouldAutoRestart /\ ~v.isListening THEN RecognitionStart(v) ELSE v

handleStart(v) ==
    clearRestartTimeout([v EXCEPT !.isListening = TRUE])

\* a bug the claims must notice: a fatal error leaves auto-restart on
handleErrorRecoverable(v, errorType) ==
    [v EXCEPT !.isListening = FALSE]

handleError(v, errorType) ==
    [v EXCEPT !.isListening = FALSE,
              !.shouldAutoRestart = IF errorType \in FatalTypes THEN FALSE ELSE @]

\* a bug the claims must notice: the end of a session schedules nothing
handleEndWithoutRestart(v) ==
    [v EXCEPT !.isListening = FALSE]

handleEnd(v) ==
    IF v.shouldAutoRestart /\ v.isInitialized
    THEN scheduleRestart([v EXCEPT !.isListening = FALSE])
    ELSE [v EXCEPT !.isListening = FALSE]

\* start(): initialize() throws where the browser has no SpeechRecognition
start(v, hasApi) ==
    IF ~v.isInitialized /\ ~hasApi THEN [v EXCEPT !.returned = "threw"]
    ELSE IF initialize(v).isListening THEN [initialize(v) EXCEPT !.returned = "true"]
    ELSE [RecognitionStart([initialize(v) EXCEPT !.shouldAutoRestart = TRUE]) EXCEPT !.returned = "true"]

\* a bug the claims must notice: stop() leaves a pending restart timer
stopKeepsTimer(v) ==
    IF ~v.isInitialized \/ v.recognition = "null" THEN [v EXCEPT !.returned = "false"]
    ELSE IF v.isListening
    THEN [RecognitionStop([v EXCEPT !.shouldAutoRestart = FALSE]) EXCEPT !.returned = "true"]
    ELSE [v EXCEPT !.shouldAutoRestart = FALSE, !.returned = "true"]

stop(v) ==
    IF ~v.isInitialized \/ v.recognition = "null" THEN [v EXCEPT !.returned = "false"]
    ELSE IF v.isListening
    THEN [RecognitionStop(clearRestartTimeout([v EXCEPT !.shouldAutoRestart = FALSE])) EXCEPT !.returned = "true"]
    ELSE [clearRestartTimeout([v EXCEPT !.shouldAutoRestart = FALSE]) EXCEPT !.returned = "true"]

abort(v) ==
    IF ~v.isInitialized \/ v.recognition = "null" THEN [v EXCEPT !.returned = "false"]
    ELSE [RecognitionStop(clearRestartTimeout([v EXCEPT !.shouldAutoRestart = FALSE]))
             EXCEPT !.isListening = FALSE, !.returned = "true"]

\* configure(): stop() and start() around the new settings when the engine
\* was listening; the settings themselves do not bear on the restarts
configure(v, hasApi) ==
    IF v.isListening
    THEN [start(stop(v), hasApi) EXCEPT !.returned = "true"]
    ELSE [v EXCEPT !.returned = "true"]

\* destroy(): the handlers are taken off the object and the object is dropped
destroy(v) ==
    [stop(v) EXCEPT !.recognition = "null", !.isInitialized = FALSE,
                    !.isListening = FALSE, !.returned = "none"]

\* ---- the control methods, called by the page ----
Start ==
    /\ \E r \in {start(Engine, supported)} : EngineBecomes(r)
    /\ lastOp' = "start"
    /\ stopped' = FALSE
    /\ fatal' = FALSE
    /\ reconfigured' = FALSE
    /\ UNCHANGED supported
    /\ VoiceOnly

Stop ==
    /\ \E r \in {stop(Engine)} :
          /\ EngineBecomes(r)
          /\ stopped' = (stopped \/ r.returned = "true")
    /\ lastOp' = "stop"
    /\ reconfigured' = FALSE
    /\ UNCHANGED <<supported, fatal>>
    /\ VoiceOnly

Abort ==
    /\ \E r \in {abort(Engine)} : EngineBecomes(r)
    /\ lastOp' = "abort"
    /\ reconfigured' = FALSE
    /\ UNCHANGED <<supported, stopped, fatal>>
    /\ VoiceOnly

Configure ==
    /\ \E r \in {configure(Engine, supported)} : EngineBecomes(r)
    /\ lastOp' = "configure"
    /\ reconfigured' = (reconfigured \/ isListening)
    /\ stopped' = (stopped /\ ~isListening)
    /\ fatal' = (fatal /\ ~isListening)
    /\ UNCHANGED supported
    /\ VoiceOnly

Destroy ==
    /\ \E r \in {destroy(Engine)} : EngineBecomes(r)
    /\ lastOp' = "destroy"
    /\ stopped' = (stopped \/ stop(Engine).returned = "true")
    /\ reconfigured' = FALSE
    /\ UNCHANGED <<supported, fatal>>
    /\ VoiceOnly

\* ---- the events of the SpeechRecognition object ----
OnStart ==
    /\ recognition = "started"
    /\ \E r \in {handleStart(Engine)} : EngineBecomes([r EXCEPT !.recognition = "active"])
    /\ lastOp' = "onstart"
    /\ UNCHANGED <<supported, stopped, fatal, reconfigured>>
    /\ VoiceOnly

\* an error event; the end event of the session follows it
OnError(errorType) ==
    /\ recognition \in {"started", "active", "stopping"}
    /\ \E r \in {handleError(Engine, errorType)} : EngineBecomes([r EXCEPT !.recognition = "failing"])
    /\ lastOp' = "onerror"
    /\ fatal' = (fatal \/ errorType \in FatalTypes)
    /\ UNCHANGED <<supported, stopped, reconfigured>>
    /\ VoiceOnly

\* the end event: the session was stopped, failed, or the browser ended it
OnEnd ==
    /\ recognition \in {"active", "stopping", "failing"}
    /\ \E r \in {handleEnd(Engine)} : EngineBecomes([r EXCEPT !.recognition = "inactive"])
    /\ lastOp' = "onend"
    /\ UNCHANGED <<supported, stopped, fatal, reconfigured>>
    /\ VoiceOnly

\* the end event the browser owes after stop(), abort() or an error
OnEndDue ==
    /\ recognition \in {"stopping", "failing"}
    /\ OnEnd

\* the restart timer fires; restartTimeout keeps the id of the spent timer
RestartTimerFires ==
    /\ restartTimeout = "pending"
    /\ \E r \in {RestartCallback(Engine)} : EngineBecomes([r EXCEPT !.restartTimeout = "fired"])
    /\ lastOp' = "timer"
    /\ UNCHANGED <<supported, stopped, fatal, reconfigured>>
    /\ VoiceOnly

NextVoice ==
    \/ Start
    \/ Stop
    \/ Abort
    \/ Configure
    \/ Destroy
    \/ OnStart
    \/ \E errorType \in ErrorTypes : OnError(errorType)
    \/ OnEnd
    \/ RestartTimerFires

SpecVoice == Init /\ [][NextVoice]_vars

\* timers fire, and the browser delivers the start event of a session begun
\* and the end event of a session stopped or failed; the page owes no call
SpecVoiceFair ==
    /\ Init /\ [][NextVoice]_vars
    /\ WF_vars(RestartTimerFires)
    /\ WF_vars(OnStart)
    /\ WF_vars(OnEndDue)

\* C37: after stop() returned true, and until start() is called again, no
\* restart timer is pending and no step invokes recognition.start(),
\* whatever end and error events follow.
C37_StopDisablesRestart ==
    stopped => /\ restartTimeout # "pending"
               /\ ~invoked
               /\ ~shouldAutoRestart

\* a session ended after stop() and nothing was scheduled
C37_Witness ==
    /\ stopped
    /\ lastOp = "onend"
    /\ recognition = "inactive"
    /\ ~scheduled

\* C38: when configure() found the engine listening and the end event of its
\* internal stop has been delivered, the engine eventually listens again
\* with auto-restart enabled, unless the page calls a control method.
C38_ConfigureRestarts ==
    (reconfigured /\ lastOp = "onend") ~> ((isListening /\ shouldAutoRestart) \/ ~reconfigured)

\* C39: after an error event of a fatal type, and until start() is called,
\* no step schedules a restart timer and none invokes recognition.start().
C39_FatalErrorNoRestart ==
    fatal => /\ ~scheduled
             /\ ~invoked

\* the end event that follows a fatal error was handled
C39_Witness ==
    /\ fatal
    /\ lastOp = "onend"
    /\ recognition = "inactive"

\* C40: once an end event was handled with the engine initialized and
\* auto-restart enabled, recognition.start() is eventually invoked, unless
\* stop(), abort(), destroy() or a fatal error turns auto-restart off.
C40_EndLeadsToRestart ==
    (lastOp = "onend" /\ shouldAutoRestart /\ isInitialized)
        ~> (invoked \/ ~shouldAutoRestart \/ ~isInitialized)

\* the restart timer invoked recognition.start() and a session began
C40_Witness ==
    /\ lastOp = "timer"
    /\ invoked
    /\ recognition = "started"

============================================================================
